---- MODULE Spec2Model ----
(***************************************************************************)
(* State-machine model of the FAISS indexer (faiss_indexer.py) and the RAG *)
(* question-answering engine (rag_qa.py).                                  *)
(*                                                                         *)
(* One FAISSIndexer instance, one snapshot directory on disk, and the      *)
(* outcome of the most recent call.  Remote services (embedding, chat      *)
(* completion) are inputs of the actions.                                  *)
(***************************************************************************)
EXTENDS Integers, Sequences, FiniteSets, TLC

VARIABLES
    index,           \* self.index: None, or the vectors held by the FAISS index
    chunks,          \* self.chunks: list of fragment dicts
    id_map,          \* self.id_map: faiss_id -> chunk_id
    reverse_id_map,  \* self.reverse_id_map: chunk_id -> faiss_id
    next_faiss_id,   \* self.next_faiss_id
    disk,            \* the four files of the snapshot directory
    call,            \* the most recent call: its name and arguments
    ret,             \* what that call returned, or the exception it raised
    only_build_add,  \* history: the indexer state results from successful
                     \* build_index / add_chunks calls only
    saved,           \* history: the in-memory state written by the last
                     \* save_index that returned, while the directory still
                     \* holds exactly those four files
    llm_calls,       \* chat-completion requests sent during the most recent call
    index_type,      \* self.index_config.index_type
    initialized,     \* history: a build_index or load_index call on this
                     \* indexer has returned
    requests,        \* the requests sent to the remote services, and the
                     \* sleeps, during the most recent call, in order
    model_name,      \* self.embedding_config.model_name
    running,         \* calls in progress on the indexer in two threads, each
                     \* with its position and local variables
    heap             \* the list objects the program shares with its caller:
                     \* their contents, and whether self.chunks is the list
                     \* that was passed to build_index

vars == <<index, chunks, id_map, reverse_id_map, next_faiss_id, disk, call, ret,
          only_build_add, saved, llm_calls, index_type, initialized, requests,
          model_name, running, heap>>

hist == <<only_build_add, saved, initialized>>

mem == <<index, chunks, id_map, reverse_id_map, next_faiss_id>>

----------------------------------------------------------------------------
(* Bounds of the model *)

\* largest number of fragments the index is grown to
MaxChunks == 3

\* longest fragment list passed to one build_index / add_chunks call
MaxBatch == 2

\* EmbeddingConfig.batch_size, the number of texts sent in one embedding
\* request (10 in the source): small, so that one call spans several batches
BatchSize == 1

\* longest outage of the embedding service, in consecutive failed requests
MaxOutage == 4

----------------------------------------------------------------------------
(* Data *)

\* Fragment dicts {"chunk_id": ..., "text": ...} a caller may pass in.
\* Identifiers are non-empty strings (docx_chunker builds them as
\* "<prefix>_chunk_<i:04d>").  The same fragment may be passed twice.
Fragments ==
    { [chunk_id |-> "a", text |-> "t1"],
      [chunk_id |-> "b", text |-> "t2"] }

ChunkIds == { f.chunk_id : f \in Fragments }

RECURSIVE SeqsUpTo(_, _)
SeqsUpTo(S, n) ==
    IF n = 0 THEN { <<>> }
    ELSE LET shorter == SeqsUpTo(S, n - 1)
         IN  shorter \cup { Append(s, x) : s \in { t \in shorter : Len(t) = n - 1 }, x \in S }

\* the chunk lists passed to build_index / add_chunks
Batches == SeqsUpTo(Fragments, MaxBatch)

\* Python dict assignment d[k] = v
Put(d, k, v) == [x \in (DOMAIN d) \cup {k} |-> IF x = k THEN v ELSE d[x]]

EmptyDict == [x \in {} |-> 0]

\* self.index = None
NoIndex == [built |-> FALSE, vecs |-> <<>>, metric |-> "none", d |-> 0]

\* IndexConfig.index_type: "IndexFlatIP", or anything else for IndexFlatL2
IndexTypes == {"IndexFlatIP", "IndexFlatL2"}

\* EmbeddingConfig.model_name: the default, and a model of the same service
\* whose vectors have another length
ModelName == "text-embedding-v3"

OtherModel == "text-embedding-v2"

Models == {ModelName, OtherModel}

\* the length of the vectors a model returns
Dimension(model) == IF model = ModelName THEN 1024 ELSE 1536

\* the vector the configured embedding model computes for a text
EmbedText(t) == [of |-> t, dim |-> Dimension(model_name)]

TextsOf(cs) == [i \in 1..Len(cs) |-> cs[i].text]

\* index.ntotal
ntotal(ix) == Len(ix.vecs)

\* index.add(embeddings)
IndexAdd(ix, embeddings) == [ix EXCEPT !.built = TRUE, !.vecs = @ \o embeddings]

\* faiss.IndexFlatIP(dimension) / faiss.IndexFlatL2(dimension): a new, empty index
NewIndex(type, dimension) ==
    [built |-> TRUE, vecs |-> <<>>, metric |-> IF type = "IndexFlatIP" THEN "IP" ELSE "L2",
     d |-> dimension]

\* embeddings.shape[1]
Shape1(embeddings) == embeddings[1].dim

----------------------------------------------------------------------------
(* Outcomes of a call *)

Returned(v) == [status |-> "ok", exc |-> "", value |-> v]

Raised(e) == [status |-> "raised", exc |-> e, value |-> <<>>]

\* Python's None as a return value
None == <<>>

----------------------------------------------------------------------------
(* EmbeddingClient: embed_texts / _embed_batch_with_retry *)

\* default of the max_retries parameter of embed_texts
DefaultMaxRetries == 3

\* Behaviour of the embedding service during one call: the requests number
\* start .. start+len-1 of the call fail (time-out, HTTP error), every other
\* request is answered; reversed: the items of a response are listed in
\* reverse index order.
Services ==
    { [start |-> s, len |-> n, reversed |-> r] :
          s \in 1..(MaxBatch + 1), n \in 0..MaxOutage, r \in BOOLEAN }

Reliable == [start |-> 1, len |-> 0, reversed |-> FALSE]

RequestFails(svc, r) == svc.start <= r /\ r < svc.start + svc.len

\* entries of the log of requests
EmbedRequest(n, ok) == [kind |-> "embed", texts |-> n, secs |-> 0, ok |-> ok]

Sleep(secs) == [kind |-> "sleep", texts |-> 0, secs |-> secs, ok |-> TRUE]

ChatRequest(ok) == [kind |-> "chat", texts |-> 0, secs |-> 0, ok |-> ok]

\* the number of embedding requests in a log
NumEmbeds(log) == Cardinality({ i \in 1..Len(log) : log[i].kind = "embed" })

\* response.data of embeddings.create(input=texts): one item per text,
\* carrying the index of its text
ResponseData(texts, svc) ==
    [i \in 1..Len(texts) |->
        LET j == IF svc.reversed THEN Len(texts) + 1 - i ELSE i
        IN  [index |-> j - 1, embedding |-> EmbedText(texts[j])]]

\* sorted(response.data, key=lambda x: x.index)
SortedByIndex(data) ==
    [i \in 1..Len(data) |->
        data[CHOOSE k \in 1..Len(data) :
                Cardinality({ m \in 1..Len(data) : data[m].index < data[k].index }) = i - 1]]

Embeddings_Unsorted(data) == [i \in 1..Len(data) |-> data[i].embedding]

\* [item.embedding for item in sorted_data]
Embeddings(data) == [i \in 1..Len(data) |-> SortedByIndex(data)[i].embedding]

\* raise RuntimeError(f"Embedding 请求最终失败: {e}")
EmbeddingFailed == "RuntimeError(embedding)"

RetryWait_Linear(attempt) == attempt + 1

\* wait_time = 2 ** attempt
RetryWait(attempt) == 2 ^ attempt

\* _embed_batch_with_retry, from the given attempt on; sent: the requests
\* the call has sent before.  out is what it returns or raises, log what it
\* requested and slept meanwhile.
RECURSIVE embed_batch_with_retry(_, _, _, _, _)
embed_batch_with_retry(texts, max_retries, attempt, svc, sent) ==
    IF attempt >= max_retries
    THEN \* "for attempt in range(max_retries)" is over: the function ends
         \* without a return statement
         [out |-> Returned(None), log |-> <<>>]
    ELSE IF ~RequestFails(svc, sent + 1)
    THEN [ out |-> Returned(Embeddings(ResponseData(texts, svc))),
           log |-> <<EmbedRequest(Len(texts), TRUE)>> ]
    ELSE IF attempt < max_retries - 1
    THEN LET rest == embed_batch_with_retry(texts, max_retries, attempt + 1, svc, sent + 1)
         IN  [ out |-> rest.out,
               log |-> <<EmbedRequest(Len(texts), FALSE), Sleep(RetryWait(attempt))>> \o rest.log ]
    ELSE [ out |-> Raised(EmbeddingFailed),
           log |-> <<EmbedRequest(Len(texts), FALSE)>> ]

EmbedSlice_OneShort(texts, i, size) ==
    SubSeq(texts, i + 1, IF i + size - 1 < Len(texts) THEN i + size - 1 ELSE Len(texts))

\* batch_texts = texts[i:i + batch_size]
EmbedSlice(texts, i, size) ==
    SubSeq(texts, i + 1, IF i + size < Len(texts) THEN i + size ELSE Len(texts))

\* the loop "for i in range(0, len(texts), batch_size)" of embed_texts, from
\* position i on
RECURSIVE EmbedBatches(_, _, _, _, _, _, _)
EmbedBatches(texts, i, size, max_retries, svc, sent, all_embeddings) ==
    IF i >= Len(texts) THEN [out |-> Returned(all_embeddings), log |-> <<>>]
    ELSE LET batch == embed_batch_with_retry(EmbedSlice(texts, i, size), max_retries, 0, svc, sent)
         IN  IF batch.out.status = "raised" THEN batch
             ELSE IF batch.out.value = None
             THEN \* all_embeddings.extend(None)
                  [out |-> Raised("TypeError"), log |-> batch.log]
             ELSE LET rest == EmbedBatches(texts, i + size, size, max_retries, svc,
                                           sent + NumEmbeds(batch.log),
                                           all_embeddings \o batch.out.value)
                  IN  [out |-> rest.out, log |-> batch.log \o rest.log]

\* embed_texts(texts, max_retries) of a client configured with batch_size
embed_texts(texts, size, max_retries, svc) ==
    LET batches == EmbedBatches(texts, 0, size, max_retries, svc, 0, <<>>)
    IN  IF batches.out.status = "ok" /\ batches.out.value = <<>>
        THEN \* np.array([]) has shape (0,): faiss.normalize_L2 reads
             \* x.shape[1] and fails
             [out |-> Raised("IndexError"), log |-> batches.log]
        ELSE batches

\* embed_query(query): embed_texts([query])
embed_query(query, svc) == embed_texts(<<query>>, BatchSize, DefaultMaxRetries, svc)

----------------------------------------------------------------------------
(* FAISSIndexer.build_index *)

\* the position (from 1) of the first dict of the list that has no key k;
\* 0 when every dict has it
FirstWithout(cs, k) ==
    LET without == { i \in 1..Len(cs) : k \notin DOMAIN cs[i] }
    IN  IF without = {} THEN 0 ELSE CHOOSE i \in without : \A j \in without : i <= j

\* the chunks a loop has gone through when chunk["chunk_id"] raises KeyError
\* at position bad
LoopedOver(cs, bad) == IF bad = 0 THEN cs ELSE SubSeq(cs, 1, bad - 1)

\* a variant that counts the positions from 1
BuildAssign_FromOne(maps, faiss_id, chunk) ==
    [ id_map         |-> Put(maps.id_map, faiss_id + 1, chunk.chunk_id),
      reverse_id_map |-> Put(maps.reverse_id_map, chunk.chunk_id, faiss_id + 1) ]

\* body of the loop "for faiss_id, chunk in enumerate(chunks)"
BuildAssign(maps, faiss_id, chunk) ==
    [ id_map         |-> Put(maps.id_map, faiss_id, chunk.chunk_id),
      reverse_id_map |-> Put(maps.reverse_id_map, chunk.chunk_id, faiss_id) ]

\* the loop over enumerate(chunks), from position faiss_id on
RECURSIVE BuildMaps(_, _, _)
BuildMaps(cs, faiss_id, maps) ==
    IF faiss_id >= Len(cs) THEN maps
    ELSE BuildMaps(cs, faiss_id + 1, BuildAssign(maps, faiss_id, cs[faiss_id + 1]))

BuildStartMaps_KeepsReverse == [id_map |-> EmptyDict, reverse_id_map |-> reverse_id_map]

\* self.id_map = {}; self.reverse_id_map = {}
BuildStartMaps == [id_map |-> EmptyDict, reverse_id_map |-> EmptyDict]

BuildNextId_OffByOne(cs) == Len(cs) - 1

\* self.next_faiss_id = len(chunks)
BuildNextId(cs) == Len(cs)

\* svc: how the embedding service behaves during the call
build_index(cs, svc) ==
    /\ call' = [op |-> "build_index", arg |-> Len(cs)]
    /\ llm_calls' = 0
    /\ UNCHANGED <<index_type, model_name, running>>
    /\ IF cs = <<>>
       THEN \* raise ValueError("chunks 列表不能为空")
            /\ ret' = Raised("ValueError")
            /\ requests' = <<>>
            /\ UNCHANGED <<mem, disk, hist>>
       ELSE IF FirstWithout(cs, "text") # 0
       THEN \* texts = [chunk["text"] for chunk in chunks] raises KeyError
            /\ ret' = Raised("KeyError")
            /\ requests' = <<>>
            /\ UNCHANGED <<mem, disk, hist>>
       ELSE LET embedded == embed_texts(TextsOf(cs), BatchSize, DefaultMaxRetries, svc)
                bad == FirstWithout(cs, "chunk_id")
                maps == BuildMaps(LoopedOver(cs, bad), 0, BuildStartMaps)
            IN  /\ requests' = embedded.log
                /\ IF embedded.out.status = "raised"
                   THEN \* embed_texts raised: nothing has been assigned yet
                        /\ ret' = embedded.out
                        /\ UNCHANGED <<mem, disk, hist>>
                   ELSE /\ index' = IndexAdd(NewIndex(index_type, Shape1(embedded.out.value)),
                                           embedded.out.value)
                        /\ chunks' = cs
                        /\ id_map' = maps.id_map
                        /\ reverse_id_map' = maps.reverse_id_map
                        /\ IF bad # 0
                           THEN \* chunk["chunk_id"] raises KeyError inside the
                                \* loop, after index, chunks and both maps
                                \* were replaced
                                /\ ret' = Raised("KeyError")
                                /\ only_build_add' = FALSE
                                /\ UNCHANGED <<next_faiss_id, initialized, disk, saved>>
                           ELSE /\ next_faiss_id' = BuildNextId(cs)
                                /\ only_build_add' = TRUE
                                /\ initialized' = TRUE
                                /\ ret' = Returned(None)
                                /\ UNCHANGED <<disk, saved>>

----------------------------------------------------------------------------
(* FAISSIndexer.add_chunks *)

AddAssign_NoIncrement(st, chunk) ==
    [ id_map         |-> Put(st.id_map, st.next_faiss_id, chunk.chunk_id),
      reverse_id_map |-> Put(st.reverse_id_map, chunk.chunk_id, st.next_faiss_id),
      chunks         |-> Append(st.chunks, chunk),
      next_faiss_id  |-> st.next_faiss_id ]

\* body of the loop "for chunk in chunks"
AddAssign(st, chunk) ==
    [ id_map         |-> Put(st.id_map, st.next_faiss_id, chunk.chunk_id),
      reverse_id_map |-> Put(st.reverse_id_map, chunk.chunk_id, st.next_faiss_id),
      chunks         |-> Append(st.chunks, chunk),
      next_faiss_id  |-> st.next_faiss_id + 1 ]

RECURSIVE AddLoop(_, _)
AddLoop(cs, st) ==
    IF cs = <<>> THEN st
    ELSE AddLoop(Tail(cs), AddAssign(st, Head(cs)))

\* a variant that adds the vectors of each batch to the index as soon as
\* the batch is embedded
add_chunks_AddsPerBatch(cs, svc) ==
    /\ Len(chunks) + Len(cs) <= MaxChunks
    /\ ntotal(index) + Len(cs) <= MaxChunks
    /\ next_faiss_id + Len(cs) <= MaxChunks
    /\ call' = [op |-> "add_chunks", arg |-> Len(cs)]
    /\ llm_calls' = 0
    /\ UNCHANGED <<index_type, model_name, running>>
    /\ IF ~index.built
       THEN /\ ret' = Raised("RuntimeError")
            /\ requests' = <<>>
            /\ UNCHANGED <<mem, disk, hist>>
       ELSE IF cs = <<>>
       THEN /\ ret' = Returned(None)
            /\ requests' = <<>>
            /\ UNCHANGED <<mem, disk, hist>>
       ELSE LET embedded == embed_texts(TextsOf(cs), BatchSize, DefaultMaxRetries, svc)
                answered == { i \in 1..Len(embedded.log) :
                                 embedded.log[i].kind = "embed" /\ embedded.log[i].ok }
                st == AddLoop(cs, [ id_map |-> id_map, reverse_id_map |-> reverse_id_map,
                                    chunks |-> chunks, next_faiss_id |-> next_faiss_id ])
            IN  /\ requests' = embedded.log
                /\ IF embedded.out.status = "raised"
                   THEN /\ ret' = embedded.out
                        /\ index' = IndexAdd(index, [i \in 1..Cardinality(answered) |->
                                                        EmbedText(cs[i].text)])
                        /\ UNCHANGED <<chunks, id_map, reverse_id_map, next_faiss_id, disk, hist>>
                   ELSE /\ index' = IndexAdd(index, embedded.out.value)
                        /\ chunks' = st.chunks
                        /\ id_map' = st.id_map
                        /\ reverse_id_map' = st.reverse_id_map
                        /\ next_faiss_id' = st.next_faiss_id
                        /\ ret' = Returned(None)
                        /\ UNCHANGED <<disk, hist>>

add_chunks(cs, svc) ==
    /\ Len(chunks) + Len(cs) <= MaxChunks
    /\ ntotal(index) + Len(cs) <= MaxChunks
    /\ next_faiss_id + Len(cs) <= MaxChunks
    /\ call' = [op |-> "add_chunks", arg |-> Len(cs)]
    /\ llm_calls' = 0
    /\ UNCHANGED <<index_type, model_name, running>>
    /\ IF ~index.built
       THEN \* raise RuntimeError("索引未初始化...")
            /\ ret' = Raised("RuntimeError")
            /\ requests' = <<>>
            /\ UNCHANGED <<mem, disk, hist>>
       ELSE IF cs = <<>>
       THEN /\ ret' = Returned(None)
            /\ requests' = <<>>
            /\ UNCHANGED <<mem, disk, hist>>
       ELSE IF FirstWithout(cs, "text") # 0
       THEN \* texts = [chunk["text"] for chunk in chunks] raises KeyError
            /\ ret' = Raised("KeyError")
            /\ requests' = <<>>
            /\ UNCHANGED <<mem, disk, hist>>
       ELSE LET embedded == embed_texts(TextsOf(cs), BatchSize, DefaultMaxRetries, svc)
                bad == FirstWithout(cs, "chunk_id")
                st == AddLoop(LoopedOver(cs, bad),
                              [ id_map |-> id_map, reverse_id_map |-> reverse_id_map,
                                chunks |-> chunks, next_faiss_id |-> next_faiss_id ])
            IN  /\ requests' = embedded.log
                /\ IF embedded.out.status = "raised"
                   THEN /\ ret' = embedded.out
                        /\ UNCHANGED <<mem, disk, hist>>
                   ELSE IF Shape1(embedded.out.value) # index.d
                   THEN \* index.add(embeddings): the FAISS wrapper asserts
                        \* that the vectors have the length of the index
                        /\ ret' = Raised("AssertionError")
                        /\ UNCHANGED <<mem, disk, hist>>
                   ELSE /\ index' = IndexAdd(index, embedded.out.value)
                        /\ chunks' = st.chunks
                        /\ id_map' = st.id_map
                        /\ reverse_id_map' = st.reverse_id_map
                        /\ next_faiss_id' = st.next_faiss_id
                        /\ IF bad # 0
                           THEN \* chunk["chunk_id"] raises KeyError inside the
                                \* loop, after index.add
                                /\ ret' = Raised("KeyError")
                                /\ only_build_add' = FALSE
                                /\ UNCHANGED <<disk, saved, initialized>>
                           ELSE /\ ret' = Returned(None)
                                /\ UNCHANGED <<disk, hist>>

----------------------------------------------------------------------------
(* Persistence: save_index / load_index *)

\* a file that does not exist
Absent == [exists |-> FALSE, data |-> <<>>]

File(d) == [exists |-> TRUE, data |-> d]

EmptyDir == [ index_file |-> Absent, chunks_file |-> Absent,
              id_map_file |-> Absent, embedding_meta_file |-> Absent ]

\* str(k) for the positions the model reaches, and int(s), its inverse
Digits == <<"0", "1", "2", "3", "4", "5", "6", "7", "8", "9">>

str(k) == Digits[k + 1]

int(s) == CHOOSE k \in 0..9 : Digits[k + 1] = s

\* json.dumps(chunk): the text of one line of chunks.jsonl
json_dumps_chunk(c) == <<"{", "chunk_id", c.chunk_id, "text", c.text, "}">>

\* json.loads(line)
json_loads_chunk(line) == [chunk_id |-> line[3], text |-> line[5]]

\* faiss.write_index
WriteIndexFile(ix) == File([metric |-> ix.metric, vecs |-> ix.vecs, d |-> ix.d])

\* the lines written to chunks.jsonl
WriteChunksFile(cs) == File([i \in 1..Len(cs) |-> json_dumps_chunk(cs[i])])

\* id_map_data as dumped to id_map.json
WriteIdMapFile(idm, rev, nxt) ==
    File([ faiss_to_chunk |-> [s \in { str(k) : k \in DOMAIN idm } |-> idm[int(s)]],
           chunk_to_faiss |-> rev,
           next_faiss_id  |-> nxt ])

\* meta_data as dumped to embedding_meta.json
WriteMetaFile(ix) == File([model_name |-> model_name, total_vectors |-> ntotal(ix)])

\* the directory after save_index wrote its first n files and then failed
\* (n = 4: every file was written and save_index returned)
DiskAfterSave(n) ==
    [ index_file          |-> IF n >= 1 THEN WriteIndexFile(index) ELSE disk.index_file,
      chunks_file         |-> IF n >= 2 THEN WriteChunksFile(chunks) ELSE disk.chunks_file,
      id_map_file         |-> IF n >= 3 THEN WriteIdMapFile(id_map, reverse_id_map, next_faiss_id)
                                        ELSE disk.id_map_file,
      embedding_meta_file |-> IF n >= 4 THEN WriteMetaFile(index)
                                        ELSE disk.embedding_meta_file ]

NothingSaved == [valid |-> FALSE, mem |-> <<>>]

\* written: how many of the four files are written before an I/O error
\* (disk full, permission) interrupts the call; 4 = no error
save_index(written) ==
    \* explored on an empty directory and on one that holds the snapshot of
    \* a save_index that returned
    /\ saved.valid \/ disk = EmptyDir
    /\ call' = [op |-> "save_index", arg |-> written]
    /\ llm_calls' = 0
    /\ requests' = <<>>
    /\ UNCHANGED <<mem, only_build_add, initialized, index_type, model_name, running, heap>>
    /\ IF ~index.built
       THEN \* raise RuntimeError("索引未初始化")
            /\ written = 4
            /\ ret' = Raised("RuntimeError")
            /\ UNCHANGED <<disk, saved>>
       ELSE /\ disk' = DiskAfterSave(written)
            /\ IF written = 4
               THEN /\ ret' = Returned(None)
                    /\ saved' = [valid |-> TRUE, mem |-> mem]
               ELSE /\ ret' = Raised("OSError")
                    /\ saved' = IF written = 0 THEN saved ELSE NothingSaved

\* the four files of the directory exist
SnapshotComplete(d) ==
    /\ d.index_file.exists
    /\ d.chunks_file.exists
    /\ d.id_map_file.exists
    /\ d.embedding_meta_file.exists

\* faiss.read_index
ReadIndexFile(f) ==
    [built |-> TRUE, vecs |-> f.data.vecs, metric |-> f.data.metric, d |-> f.data.d]

\* the loop over the lines of chunks.jsonl
ReadChunksFile(f) == [i \in 1..Len(f.data) |-> json_loads_chunk(f.data[i])]

\* {int(k): v for k, v in id_map_data["faiss_to_chunk"].items()}
ReadIdMap(f) ==
    [k \in { int(s) : s \in DOMAIN f.data.faiss_to_chunk } |-> f.data.faiss_to_chunk[str(k)]]

\* self.reverse_id_map = id_map_data["chunk_to_faiss"]
ReadReverseIdMap(f) == f.data.chunk_to_faiss

ReadNextId_FromReverseMap(f) == Cardinality(DOMAIN f.data.chunk_to_faiss)

\* self.next_faiss_id = id_map_data["next_faiss_id"]
ReadNextId(f) == f.data.next_faiss_id

\* the runtime data of an indexer as one value
MemRecord ==
    [ index |-> index, chunks |-> chunks, id_map |-> id_map,
      reverse_id_map |-> reverse_id_map, next_faiss_id |-> next_faiss_id ]

\* load_index on an indexer whose runtime data is st, from directory d: the
\* data afterwards, what the call returns or raises, and whether it has
\* assigned anything.  The comparison of the recorded model_name with the
\* configured one only prints a warning.
LoadInto(st, d) ==
    IF ~d.index_file.exists
    THEN \* raise FileNotFoundError before anything is assigned
         [st |-> st, ret |-> Raised("FileNotFoundError"), assigned |-> FALSE]
    ELSE LET s1 == [st EXCEPT !.index = ReadIndexFile(d.index_file)]
         IN  IF ~d.chunks_file.exists
             THEN \* self.chunks = [] was executed, open() raised
                  [ st |-> [s1 EXCEPT !.chunks = <<>>],
                    ret |-> Raised("FileNotFoundError"), assigned |-> TRUE ]
             ELSE LET s2 == [s1 EXCEPT !.chunks = ReadChunksFile(d.chunks_file)]
                  IN  IF ~d.id_map_file.exists
                      THEN [st |-> s2, ret |-> Raised("FileNotFoundError"), assigned |-> TRUE]
                      ELSE [ st |-> [s2 EXCEPT !.id_map = ReadIdMap(d.id_map_file),
                                               !.reverse_id_map = ReadReverseIdMap(d.id_map_file),
                                               !.next_faiss_id = ReadNextId(d.id_map_file)],
                             ret |-> IF ~d.embedding_meta_file.exists
                                     THEN Raised("FileNotFoundError")
                                     ELSE Returned(None),
                             assigned |-> TRUE ]

load_index ==
    /\ call' = [op |-> "load_index", arg |-> 0]
    /\ llm_calls' = 0
    /\ requests' = <<>>
    /\ UNCHANGED <<disk, saved, index_type, model_name, running, heap>>
    /\ initialized' = (initialized \/ SnapshotComplete(disk))
    /\ LET loaded == LoadInto(MemRecord, disk)
       IN  /\ index' = loaded.st.index
           /\ chunks' = loaded.st.chunks
           /\ id_map' = loaded.st.id_map
           /\ reverse_id_map' = loaded.st.reverse_id_map
           /\ next_faiss_id' = loaded.st.next_faiss_id
           /\ ret' = loaded.ret
           /\ only_build_add' = (only_build_add /\ ~loaded.assigned)

----------------------------------------------------------------------------
(* Retrieval: search / search_with_chunks *)

\* query texts
Queries == {"q1", "q2", "q3"}

\* The inner product of the (normalized) query vector and a stored vector,
\* in units of 0.00001.  q1 has both fragments above the default threshold
\* 0.35, q2 has one just below and one exactly at it, q3 has both below it.
InnerProduct(qv, v) ==
    CASE qv.of = "q1" /\ v.of = "t1" -> 82000
      [] qv.of = "q1" /\ v.of = "t2" -> 35004
      [] qv.of = "q2" /\ v.of = "t1" -> 34996
      [] qv.of = "q2" /\ v.of = "t2" -> 35000
      [] qv.of = "q3" /\ v.of = "t1" -> 12000
      [] qv.of = "q3" /\ v.of = "t2" -> 20000

\* The squared L2 distance of the two normalized vectors, 2 - 2 * <q, v>
L2Distance(qv, v) == 200000 - 2 * InnerProduct(qv, v)

\* the score the index reports for a stored vector: the inner product
\* (IndexFlatIP) or the squared distance (IndexFlatL2)
Score(ix, qv, v) == IF ix.metric = "IP" THEN InnerProduct(qv, v) ELSE L2Distance(qv, v)

\* p ranks before r: larger inner product, or smaller distance
RanksBefore(ix, qv, p, r) ==
    IF ix.metric = "IP"
    THEN Score(ix, qv, ix.vecs[p + 1]) > Score(ix, qv, ix.vecs[r + 1])
    ELSE Score(ix, qv, ix.vecs[p + 1]) < Score(ix, qv, ix.vecs[r + 1])

\* the position the index ranks first among S, the lowest position among
\* equals
BestOf(ix, qv, S) ==
    CHOOSE p \in S : \A r \in S :
        \/ RanksBefore(ix, qv, p, r)
        \/ /\ Score(ix, qv, ix.vecs[p + 1]) = Score(ix, qv, ix.vecs[r + 1])
           /\ p <= r

\* the score FAISS reports next to faiss_id -1
PadScore(ix) == IF ix.metric = "IP" THEN -99999999 ELSE 99999999

\* index.search(query_embedding, top_k): top_k (faiss_id, score) pairs, best
\* first; when the index holds fewer than top_k vectors the rest is filled
\* with faiss_id -1
RECURSIVE FaissSearch(_, _, _, _)
FaissSearch(ix, qv, S, k) ==
    IF k = 0 THEN <<>>
    ELSE IF S = {} THEN <<[faiss_id |-> -1, score |-> PadScore(ix)]>> \o FaissSearch(ix, qv, S, k - 1)
    ELSE LET p == BestOf(ix, qv, S)
         IN  <<[faiss_id |-> p, score |-> Score(ix, qv, ix.vecs[p + 1])]>>
                 \o FaissSearch(ix, qv, S \ {p}, k - 1)

\* the hits for a query whose embedding request was answered: the query
\* vector is then EmbedText(query)
IndexSearch(ix, query, top_k) ==
    FaissSearch(ix, EmbedText(query), 0..(ntotal(ix) - 1), top_k)

\* score_threshold: None, or a number
NoThreshold == [set |-> FALSE, value |-> 0]

Threshold(x) == [set |-> TRUE, value |-> x]

BelowThreshold_Inverted(score, thr) == thr.set /\ score > thr.value

BelowThreshold_DropsEqual(score, thr) == thr.set /\ score <= thr.value

\* "score_threshold is not None and score < score_threshold"
BelowThreshold(score, thr) == thr.set /\ score < thr.value

\* round(float(score), 4): to the nearest multiple of 0.0001 (10 units),
\* a tie to the even one
Round4(x) ==
    LET low == x - (x % 10)
    IN  IF x % 10 < 5 THEN low
        ELSE IF x % 10 > 5 THEN low + 10
        ELSE IF (low \div 10) % 2 = 0 THEN low ELSE low + 10

\* body and iteration of the result loop of search
RECURSIVE SearchLoop(_, _, _)
SearchLoop(hits, thr, idm) ==
    IF hits = <<>> THEN <<>>
    ELSE LET h == Head(hits)
             rest == SearchLoop(Tail(hits), thr, idm)
         IN  IF h.faiss_id = -1 THEN rest
             ELSE IF BelowThreshold(h.score, thr) THEN rest
             ELSE IF h.faiss_id \in DOMAIN idm   \* chunk_id = id_map.get(...); if chunk_id:
                  THEN <<[chunk_id |-> idm[h.faiss_id], score |-> Round4(h.score)]>> \o rest
                  ELSE rest

search_results(ix, idm, query, top_k, thr) ==
    SearchLoop(IndexSearch(ix, query, top_k), thr, idm)

\* body and iteration of the result loop of search_with_chunks
RECURSIVE SearchChunksLoop(_, _, _, _)
SearchChunksLoop(hits, thr, idm, cs) ==
    IF hits = <<>> THEN <<>>
    ELSE LET h == Head(hits)
             rest == SearchChunksLoop(Tail(hits), thr, idm, cs)
         IN  IF h.faiss_id = -1 THEN rest
             ELSE IF BelowThreshold(h.score, thr) THEN rest
             ELSE IF h.faiss_id \in DOMAIN idm /\ h.faiss_id < Len(cs)
                  THEN <<[ chunk_id |-> idm[h.faiss_id],
                           score    |-> Round4(h.score),
                           text     |-> cs[h.faiss_id + 1].text ]>> \o rest
                  ELSE rest

search_with_chunks_results(ix, cs, idm, query, top_k, thr) ==
    SearchChunksLoop(IndexSearch(ix, query, top_k), thr, idm, cs)

search(query, top_k, thr, svc) ==
    /\ call' = [op |-> "search", arg |-> [query |-> query, top_k |-> top_k, score_threshold |-> thr]]
    /\ llm_calls' = 0
    /\ UNCHANGED <<mem, disk, hist, index_type, model_name, running, heap>>
    /\ IF ~index.built
       THEN \* raise RuntimeError("索引未初始化...")
            /\ ret' = Raised("RuntimeError")
            /\ requests' = <<>>
       ELSE LET embedded == embed_query(query, svc)
            IN  /\ requests' = embedded.log
                /\ ret' = IF embedded.out.status = "raised" THEN embedded.out
                          ELSE IF Shape1(embedded.out.value) # index.d
                          THEN \* index.search(query_embedding, top_k): the FAISS
                               \* wrapper asserts the length of the vector
                               Raised("AssertionError")
                          ELSE Returned(search_results(index, id_map, query, top_k, thr))

search_with_chunks(query, top_k, thr, svc) ==
    /\ call' = [op |-> "search_with_chunks",
                arg |-> [query |-> query, top_k |-> top_k, score_threshold |-> thr]]
    /\ llm_calls' = 0
    /\ UNCHANGED <<mem, disk, hist, index_type, model_name, running, heap>>
    /\ IF ~index.built
       THEN /\ ret' = Raised("RuntimeError")
            /\ requests' = <<>>
       ELSE LET embedded == embed_query(query, svc)
            IN  /\ requests' = embedded.log
                /\ ret' = IF embedded.out.status = "raised" THEN embedded.out
                          ELSE IF Shape1(embedded.out.value) # index.d
                          THEN Raised("AssertionError")
                          ELSE Returned(search_with_chunks_results(index, chunks, id_map,
                                                                   query, top_k, thr))

----------------------------------------------------------------------------
(* RAGEngine.ask *)

\* RAGConfig: the default one, and one that keeps a single fragment
RAGConfigs ==
    { [top_k |-> 5, min_chunks |-> 3, max_chunks |-> 5, score_threshold |-> Threshold(35000)],
      [top_k |-> 3, min_chunks |-> 1, max_chunks |-> 1, score_threshold |-> Threshold(35000)] }

\* an identifier no fragment has, as a model may invent one
UnknownId == "zz"

\* values of the "citations" field of a response object: absent, a number,
\* or a list of strings
CitationValues ==
    { [kind |-> "missing", items |-> <<>>], [kind |-> "number", items |-> <<>>] }
        \cup { [kind |-> "list", items |-> c] : c \in SeqsUpTo(ChunkIds \cup {UnknownId}, 2) }

\* clean_response: the text without a leading "```json" or "```" and
\* without a trailing "```"
StripFence(raw) ==
    CASE raw = "fenced_plain_text"  -> "raw_plain_text"
      [] raw = "fenced_json_object" -> "raw_json_object"
      [] OTHER -> raw

\* Texts the language model may respond with: raw is the text, parsed is
\* what json.loads makes of StripFence(raw) ("invalid": json.JSONDecodeError).
Responses ==
    { [raw |-> "raw_plain_text", parsed |-> [kind |-> "invalid"]],
      [raw |-> "fenced_plain_text", parsed |-> [kind |-> "invalid"]],
      [raw |-> "raw_json_array", parsed |-> [kind |-> "array"]],
      [raw |-> "fenced_json_object",
       parsed |-> [kind |-> "object", answer |-> "parsed_answer",
                   citations |-> [kind |-> "list", items |-> <<"a">>]]] }
        \cup { [raw |-> "raw_json_object",
                parsed |-> [kind |-> "object", answer |-> "parsed_answer", citations |-> c]]
               : c \in CitationValues }

\* no request was sent to the language model
NoResponse == [raw |-> "", parsed |-> [kind |-> "none"]]

\* the chat-completion request failed: llm.chat raises
ChatFailure == [raw |-> "", parsed |-> [kind |-> "failure"]]

\* what a chat-completion request may end in
ChatOutcomes == Responses \cup {ChatFailure}

\* the module-level dict as the import creates it
NO_CONTEXT_RESPONSE == [answer |-> "no_context_answer", citations |-> <<>>]

\* the list objects before any call: the list under
\* NO_CONTEXT_RESPONSE["citations"]; L and M, the lists the caller passes
\* to build_index and to add_chunks, with the contents they had when they
\* were passed; self.chunks is a list of its own
FreshHeap ==
    [ no_context_citations |-> NO_CONTEXT_RESPONSE.citations,
      L |-> <<>>, given_L |-> <<>>, M |-> <<>>, given_M |-> <<>>,
      chunks_is_L |-> FALSE ]

\* the answer returned when retrieval is empty:
\* {**NO_CONTEXT_RESPONSE, "sources": [], "has_context": False} copies the
\* keys, so "citations" is the module's list itself
NoContextResult ==
    [ answer      |-> NO_CONTEXT_RESPONSE.answer,
      citations   |-> heap.no_context_citations,
      sources     |-> <<>>,
      has_context |-> FALSE ]

retrieve_chunks_KeepsLast(ix, cs, idm, question, cfg) ==
    LET results == search_with_chunks_results(ix, cs, idm, question,
                                              cfg.top_k, cfg.score_threshold)
    IN  IF Len(results) > cfg.max_chunks
        THEN SubSeq(results, Len(results) - cfg.max_chunks + 1, Len(results))
        ELSE results

retrieve_chunks_Untruncated(ix, cs, idm, question, cfg) ==
    search_with_chunks_results(ix, cs, idm, question, cfg.top_k, cfg.score_threshold)

\* _retrieve_chunks, once the question is embedded
retrieve_chunks(ix, cs, idm, question, cfg) ==
    LET results == search_with_chunks_results(ix, cs, idm, question,
                                              cfg.top_k, cfg.score_threshold)
    IN  IF Len(results) > cfg.max_chunks
        THEN SubSeq(results, 1, cfg.max_chunks)
        ELSE results

\* available_chunk_ids = [chunk["chunk_id"] for chunk in retrieved_chunks]
AvailableChunkIds(retrieved) == { retrieved[i].chunk_id : i \in 1..Len(retrieved) }

ValidCitations_Unfiltered(citations, available) == citations

\* [cid for cid in citations if cid in available_chunk_ids]
ValidCitations(citations, available) ==
    LET Available(cid) == cid \in available
    IN  SelectSeq(citations, Available)

\* len(chunk["text"])
TextLength(t) == CASE t = "t1" -> 200 [] t = "t2" -> 260

SourcePreview_CutsAt200(t) ==
    IF TextLength(t) >= 200
    THEN [of |-> t, chars |-> 200, ellipsis |-> TRUE]
    ELSE [of |-> t, chars |-> TextLength(t), ellipsis |-> FALSE]

\* chunk["text"][:200] + "..." if len(chunk["text"]) > 200 else chunk["text"]
SourcePreview(t) ==
    IF TextLength(t) > 200
    THEN [of |-> t, chars |-> 200, ellipsis |-> TRUE]
    ELSE [of |-> t, chars |-> TextLength(t), ellipsis |-> FALSE]

\* the loop that builds sources
RECURSIVE Sources(_, _)
Sources(retrieved, valid) ==
    IF retrieved = <<>> THEN <<>>
    ELSE LET c == Head(retrieved)
             rest == Sources(Tail(retrieved), valid)
         IN  IF \E i \in 1..Len(valid) : valid[i] = c.chunk_id
             THEN <<[chunk_id |-> c.chunk_id, score |-> c.score,
                     text |-> SourcePreview(c.text)]>> \o rest
             ELSE rest

FallbackAnswer_Cleaned(resp) == StripFence(resp.raw)

\* except json.JSONDecodeError: answer = raw_response
FallbackAnswer(resp) == resp.raw

parse_and_validate_response(resp, available, retrieved) ==
    IF resp.parsed.kind = "invalid"
    THEN \* except json.JSONDecodeError: answer = raw_response, citations = []
         Returned([ answer |-> FallbackAnswer(resp), citations |-> <<>>,
                    sources |-> <<>>, has_context |-> TRUE ])
    ELSE IF resp.parsed.kind # "object"
    THEN \* parsed.get on a list, number, string or None
         Raised("AttributeError")
    ELSE IF resp.parsed.citations.kind = "number"
    THEN \* iterating a number
         Raised("TypeError")
    ELSE LET citations == resp.parsed.citations.items   \* parsed.get("citations", [])
             valid == ValidCitations(citations, available)
         IN  Returned([ answer      |-> resp.parsed.answer,
                        citations   |-> valid,
                        sources     |-> Sources(retrieved, valid),
                        has_context |-> TRUE ])

ChatLog_RetriesOnce(resp) ==
    IF resp = ChatFailure THEN <<ChatRequest(FALSE), ChatRequest(FALSE)>>
    ELSE <<ChatRequest(TRUE)>>

\* raw_response = self.llm.chat(messages, stream=stream): the requests sent
ChatLog(resp) == <<ChatRequest(resp # ChatFailure)>>

\* resp: what the chat-completion request ends in if it is sent;
\* svc: how the embedding service behaves during the call
ask(question, cfg, resp, svc) ==
    /\ UNCHANGED <<mem, disk, hist, index_type, model_name, running>>
    /\ IF ~index.built
       THEN \* search_with_chunks raises RuntimeError("索引未初始化")
            /\ call' = [op |-> "ask", arg |-> [question |-> question, config |-> cfg,
                                               response |-> NoResponse]]
            /\ ret' = Raised("RuntimeError")
            /\ llm_calls' = 0
            /\ requests' = <<>>
       ELSE LET embedded == embed_query(question, svc)
                retrieved == retrieve_chunks(index, chunks, id_map, question, cfg)
            IN  IF embedded.out.status = "raised"
                THEN \* search_with_chunks raises what embed_query raised
                     /\ call' = [op |-> "ask", arg |-> [question |-> question, config |-> cfg,
                                                        response |-> NoResponse]]
                     /\ ret' = embedded.out
                     /\ llm_calls' = 0
                     /\ requests' = embedded.log
                ELSE IF Shape1(embedded.out.value) # index.d
                THEN \* search_with_chunks raises what index.search raised
                     /\ call' = [op |-> "ask", arg |-> [question |-> question, config |-> cfg,
                                                        response |-> NoResponse]]
                     /\ ret' = Raised("AssertionError")
                     /\ llm_calls' = 0
                     /\ requests' = embedded.log
                ELSE IF retrieved = <<>>
                THEN /\ call' = [op |-> "ask", arg |-> [question |-> question, config |-> cfg,
                                                        response |-> NoResponse]]
                     /\ ret' = Returned(NoContextResult)
                     /\ llm_calls' = 0
                     /\ requests' = embedded.log
                ELSE /\ call' = [op |-> "ask", arg |-> [question |-> question, config |-> cfg,
                                                        response |-> resp]]
                     /\ llm_calls' = Len(ChatLog(resp))
                     /\ requests' = embedded.log \o ChatLog(resp)
                     /\ ret' = IF resp = ChatFailure
                               THEN \* llm.chat raised; ask has no handler
                                    Raised("APIError")
                               ELSE parse_and_validate_response(
                                        resp, AvailableChunkIds(retrieved), retrieved)

----------------------------------------------------------------------------
(* The state machine *)

\* a thread that is not inside a call of the indexer
IdleWriter == [pc |-> "idle", op |-> "none", cs |-> <<>>, embeddings |-> <<>>, i |-> 0]

IdleReader ==
    [pc |-> "idle", op |-> "none", query |-> "", top_k |-> 0, hits |-> <<>>, i |-> 0,
     chunk_id |-> "", results |-> <<>>, overlapped |-> FALSE]

\* no call is in progress
NoCalls == [writer |-> IdleWriter, reader |-> IdleReader, started |-> 0]

\* the runtime data FAISSIndexer.__init__ sets up, next to an empty
\* snapshot directory
FreshMemory ==
    /\ index = NoIndex
    /\ chunks = <<>>
    /\ id_map = EmptyDict
    /\ reverse_id_map = EmptyDict
    /\ next_faiss_id = 0
    /\ disk = EmptyDir
    /\ only_build_add = TRUE
    /\ saved = NothingSaved
    /\ llm_calls = 0
    /\ initialized = FALSE
    /\ requests = <<>>
    /\ model_name = ModelName
    /\ running = NoCalls
    /\ heap = FreshHeap

FreshIndexer ==
    /\ FreshMemory
    /\ call = [op |-> "init", arg |-> 0]
    /\ ret = Returned(None)

\* the default IndexConfig
Init ==
    /\ FreshIndexer
    /\ index_type = "IndexFlatIP"

\* calls during which the embedding service answers every request
BuildIndex ==
    /\ \E cs \in Batches : build_index(cs, Reliable)
    /\ UNCHANGED heap

AddChunks ==
    /\ \E cs \in Batches : add_chunks(cs, Reliable)
    /\ UNCHANGED heap

SaveIndex == \E written \in 0..4 : save_index(written)

LoadIndex == load_index

Next ==
    \/ BuildIndex
    \/ AddChunks
    \/ SaveIndex
    \/ LoadIndex

Spec == Init /\ [][Next]_vars

\* values passed as top_k and score_threshold to search / search_with_chunks
TopKs == {1, 2, 5}

Thresholds == {NoThreshold, Threshold(35000), Threshold(60000)}

Search == \E q \in Queries, k \in TopKs, thr \in Thresholds : search(q, k, thr, Reliable)

SearchWithChunks ==
    \E q \in Queries, k \in TopKs, thr \in Thresholds : search_with_chunks(q, k, thr, Reliable)

Ask ==
    /\ \E q \in Queries, cfg \in RAGConfigs, resp \in ChatOutcomes : ask(q, cfg, resp, Reliable)
    /\ UNCHANGED heap

\* building and extending the index, and querying it
NextQuery ==
    \/ BuildIndex
    \/ AddChunks
    \/ Search
    \/ SearchWithChunks
    \/ Ask

SpecQuery == Init /\ [][NextQuery]_vars

\* the same, on an indexer configured with index_type "IndexFlatL2"
InitL2 ==
    /\ FreshIndexer
    /\ index_type = "IndexFlatL2"

SpecL2 == InitL2 /\ [][NextQuery]_vars

\* the embedding service during a query: reliable, one failed request, or
\* down for longer than the retries last
QueryServices ==
    { Reliable, [Reliable EXCEPT !.len = 1], [Reliable EXCEPT !.len = DefaultMaxRetries] }

\* the embedding service while fragments are indexed: any outage, the
\* items of the responses in order or (when reliable) reversed
IndexingServices == { svc \in Services : ~svc.reversed \/ svc.len = 0 }

\* what the chat-completion request ends in: a failure, a text that is not
\* JSON, or an object citing a fragment
SomeChatOutcomes ==
    { resp \in ChatOutcomes : resp.raw \in {"", "raw_plain_text", "fenced_json_object"} }

\* calls during which the embedding service and the language model may fail
BuildIndexUnreliable ==
    /\ \E cs \in Batches, svc \in IndexingServices : build_index(cs, svc)
    /\ UNCHANGED heap

AddChunksUnreliable ==
    /\ \E cs \in Batches, svc \in IndexingServices : add_chunks(cs, svc)
    /\ UNCHANGED heap

SearchUnreliable ==
    \E q \in Queries, svc \in QueryServices : search(q, 2, NoThreshold, svc)

AskUnreliable ==
    /\ \E q \in Queries, cfg \in RAGConfigs, resp \in SomeChatOutcomes, svc \in QueryServices :
          ask(q, cfg, resp, svc)
    /\ UNCHANGED heap

NextService ==
    \/ BuildIndexUnreliable
    \/ AddChunksUnreliable
    \/ SearchUnreliable
    \/ AskUnreliable

SpecService == Init /\ [][NextService]_vars

\* FAISSIndexer.__init__ in a process that finds the snapshot directory as
\* an earlier one left it
new_indexer ==
    /\ index' = NoIndex
    /\ chunks' = <<>>
    /\ id_map' = EmptyDict
    /\ reverse_id_map' = EmptyDict
    /\ next_faiss_id' = 0
    /\ call' = [op |-> "init", arg |-> 0]
    /\ ret' = Returned(None)
    /\ only_build_add' = TRUE
    /\ initialized' = FALSE
    /\ llm_calls' = 0
    /\ requests' = <<>>
    /\ UNCHANGED <<disk, saved, index_type, model_name, running, heap>>

NewIndexer == new_indexer

\* the calls explored around a restart: lists of at most one fragment, and
\* one query
BuildOne ==
    /\ \E cs \in SeqsUpTo(Fragments, 1) : build_index(cs, Reliable)
    /\ UNCHANGED heap

AddOne ==
    /\ \E cs \in SeqsUpTo(Fragments, 1) : add_chunks(cs, Reliable)
    /\ UNCHANGED heap

SearchOnce == search("q1", 2, NoThreshold, Reliable)

SearchWithChunksOnce == search_with_chunks("q1", 2, NoThreshold, Reliable)

\* the life cycle of the snapshot directory over several indexers
NextRestart ==
    \/ BuildOne
    \/ AddOne
    \/ SaveIndex
    \/ LoadIndex
    \/ NewIndexer
    \/ SearchOnce
    \/ SearchWithChunksOnce

SpecRestart == Init /\ [][NextRestart]_vars

\* the texts of the fragments
Texts == { f.text : f \in Fragments }

\* a call that has not run yet
Pending == [status |-> "pending", exc |-> "", value |-> <<>>]

\* direct calls of EmbeddingClient.embed_texts and of _embed_batch_with_retry
EmbedTextsCalls ==
    { [op |-> "embed_texts",
       arg |-> [texts |-> t, batch_size |-> b, max_retries |-> n, svc |-> svc]] :
          t \in SeqsUpTo(Texts, MaxBatch + 1), b \in 1..MaxBatch,
          n \in 0..(DefaultMaxRetries + 1), svc \in Services }

EmbedBatchCalls ==
    { [op |-> "_embed_batch_with_retry",
       arg |-> [texts |-> t, batch_size |-> Len(t), max_retries |-> n, svc |-> svc]] :
          t \in SeqsUpTo(Texts, MaxBatch) \ {<<>>},
          n \in 0..(DefaultMaxRetries + 1), svc \in Services }

InitEmbed ==
    /\ FreshMemory
    /\ index_type = "IndexFlatIP"
    /\ call \in EmbedTextsCalls \cup EmbedBatchCalls
    /\ ret = Pending

EmbedTextsCall ==
    /\ call.op = "embed_texts"
    /\ ret.status = "pending"
    /\ LET result == embed_texts(call.arg.texts, call.arg.batch_size,
                                 call.arg.max_retries, call.arg.svc)
       IN  /\ ret' = result.out
           /\ requests' = result.log
    /\ UNCHANGED <<mem, disk, hist, index_type, model_name, running, heap, llm_calls, call>>

EmbedBatchCall ==
    /\ call.op = "_embed_batch_with_retry"
    /\ ret.status = "pending"
    /\ LET result == embed_batch_with_retry(call.arg.texts, call.arg.max_retries,
                                            0, call.arg.svc, 0)
       IN  /\ ret' = result.out
           /\ requests' = result.log
    /\ UNCHANGED <<mem, disk, hist, index_type, model_name, running, heap, llm_calls, call>>

NextEmbed ==
    \/ EmbedTextsCall
    \/ EmbedBatchCall

\* the embedding client alone
SpecEmbed == InitEmbed /\ [][NextEmbed]_vars

----------------------------------------------------------------------------
(* Construction: the credential and the configured model *)

\* os.getenv("DASHSCOPE_API_KEY"): None when the variable is unset,
\* otherwise its value
UnsetKey == [set |-> FALSE, value |-> ""]

EmptyKey == [set |-> TRUE, value |-> ""]

SomeKey == [set |-> TRUE, value |-> "sk-key"]

ApiKeys == {UnsetKey, EmptyKey, SomeKey}

KeyMissing_UnsetOnly(api_key) == ~api_key.set

\* "if not api_key"
KeyMissing(api_key) == ~api_key.set \/ api_key.value = ""

\* a constructor that builds a client: EmbeddingClient or LLMClient.  The
\* OpenAI client object is created without a request.
client_init(class, api_key) ==
    /\ call' = [op |-> class, arg |-> [api_key |-> api_key, indexer |-> "none"]]
    /\ ret' = IF KeyMissing(api_key) THEN Raised("ValueError") ELSE Returned(None)
    /\ requests' = <<>>
    /\ llm_calls' = 0
    /\ UNCHANGED <<mem, disk, hist, index_type, model_name, running, heap>>

\* FAISSIndexer(EmbeddingConfig(model_name=model)): the EmbeddingClient is
\* constructed before the runtime data is set up
FAISSIndexer_init(model, api_key) ==
    /\ call' = [op |-> "FAISSIndexer", arg |-> [api_key |-> api_key, indexer |-> model]]
    /\ requests' = <<>>
    /\ llm_calls' = 0
    /\ UNCHANGED <<disk, saved, index_type, running, heap>>
    /\ IF KeyMissing(api_key)
       THEN \* no indexer comes into being
            /\ ret' = Raised("ValueError")
            /\ UNCHANGED <<mem, only_build_add, initialized, model_name>>
       ELSE /\ index' = NoIndex
            /\ chunks' = <<>>
            /\ id_map' = EmptyDict
            /\ reverse_id_map' = EmptyDict
            /\ next_faiss_id' = 0
            /\ only_build_add' = TRUE
            /\ initialized' = FALSE
            /\ model_name' = model
            /\ ret' = Returned(None)

\* the runtime data FAISSIndexer.__init__ sets up
FreshMemRecord ==
    [ index |-> NoIndex, chunks |-> <<>>, id_map |-> EmptyDict,
      reverse_id_map |-> EmptyDict, next_faiss_id |-> 0 ]

\* RAGEngine(indexer): given = FALSE is RAGEngine(None), which constructs a
\* FAISSIndexer with the default configuration and loads the snapshot
\* before it constructs the LLMClient
RAGEngine_init(given, api_key) ==
    /\ call' = [op |-> "RAGEngine",
                arg |-> [api_key |-> api_key, indexer |-> IF given THEN "given" ELSE "None"]]
    /\ requests' = <<>>
    /\ llm_calls' = 0
    /\ UNCHANGED <<disk, saved, index_type, running, heap>>
    /\ IF KeyMissing(api_key)
       THEN \* raised by EmbeddingClient.__init__ (indexer None) or by
            \* LLMClient.__init__
            /\ ret' = Raised("ValueError")
            /\ UNCHANGED <<mem, only_build_add, initialized, model_name>>
       ELSE IF given
       THEN /\ ret' = Returned(None)
            /\ UNCHANGED <<mem, only_build_add, initialized, model_name>>
       ELSE LET loaded == LoadInto(FreshMemRecord, disk)
            IN  /\ ret' = loaded.ret
                /\ IF loaded.ret.status = "raised"
                   THEN \* load_index raised: no engine, the new indexer is dropped
                        UNCHANGED <<mem, only_build_add, initialized, model_name>>
                   ELSE /\ index' = loaded.st.index
                        /\ chunks' = loaded.st.chunks
                        /\ id_map' = loaded.st.id_map
                        /\ reverse_id_map' = loaded.st.reverse_id_map
                        /\ next_faiss_id' = loaded.st.next_faiss_id
                        /\ only_build_add' = FALSE
                        /\ initialized' = TRUE
                        /\ model_name' = ModelName

ConstructEmbeddingClient == \E k \in ApiKeys : client_init("EmbeddingClient", k)

ConstructLLMClient == \E k \in ApiKeys : client_init("LLMClient", k)

ConstructIndexer == \E m \in Models, k \in ApiKeys : FAISSIndexer_init(m, k)

ConstructRAGEngine == \E given \in BOOLEAN, k \in ApiKeys : RAGEngine_init(given, k)

\* save_index without an I/O error
SaveWhole == save_index(4)

\* setting up indexers and engines over one snapshot directory
NextSetup ==
    \/ ConstructEmbeddingClient
    \/ ConstructLLMClient
    \/ ConstructIndexer
    \/ ConstructRAGEngine
    \/ BuildOne
    \/ AddOne
    \/ SaveWhole
    \/ LoadIndex
    \/ SearchOnce
    \/ SearchWithChunksOnce

SpecSetup == Init /\ [][NextSetup]_vars

----------------------------------------------------------------------------
(* leave_approval_parser: call_openai_api_with_validation *)

\* max_retries = 2
MaxValidationRetries == 2

\* time.sleep(2) before a retry
ValidationWait == 2

\* What an attempt's chat-completion request ends in: an exception of the
\* request, a text that json.loads rejects, JSON that fails the schema, or
\* JSON that passes it
ApiOutcomes == {"api_error", "not_json", "invalid", "valid"}

\* the text the request of the given attempt (from 0) returned
ApiResponse(outcome, attempt) == [text |-> outcome, attempt |-> attempt]

\* "API调用失败", passed to fallback_handling when no response is at hand
ApiFailedText == [text |-> "API call failed", attempt |-> -1]

\* the local variable result before its first assignment
Unbound == [bound |-> FALSE, value |-> ApiFailedText]

Bound(v) == [bound |-> TRUE, value |-> v]

\* entries of the log: a call of call_openai_api with the original or a
\* corrective prompt, and a call of fallback_handling
ApiCall(prompt) == [kind |-> "call_openai_api", texts |-> 0, secs |-> 0, ok |-> TRUE,
                    prompt |-> prompt]

Fallback(raw_response, is_api_error, written) ==
    [kind |-> "fallback", texts |-> 0, secs |-> 0, ok |-> written,
     raw_response |-> raw_response, is_api_error |-> is_api_error]

\* json.loads(result) of a response that passed: the parsed object
Parsed(response) == <<"parsed", response.attempt>>

\* call_openai_api(prompt): raises ValueError when the key is missing,
\* before the client is created and the request is sent
call_openai_api(api_key, outcome, attempt) ==
    IF KeyMissing(api_key) THEN [out |-> Raised("ValueError"), log |-> <<>>]
    ELSE IF outcome = "api_error"
    THEN [out |-> Raised("APIError"), log |-> <<ChatRequest(FALSE)>>]
    ELSE [out |-> Returned(ApiResponse(outcome, attempt)), log |-> <<ChatRequest(TRUE)>>]

\* fallback_handling(original_content, raw_response, is_api_error): writes
\* fallback.json; written: whether open() and json.dump succeed
fallback_handling(raw_response, is_api_error, written) ==
    [ out |-> IF written THEN Returned(None) ELSE Raised("OSError"),
      log |-> <<Fallback(raw_response, is_api_error, written)>> ]

RetryLeft_Always(attempt) == attempt <= MaxValidationRetries

\* "if attempt < max_retries"
RetryLeft(attempt) == attempt < MaxValidationRetries

\* the handler "except Exception as e" of the given attempt; writes: how
\* the writes of fallback.json that are still to come end
ValidationExcept(attempt, result, writes) ==
    \* fallback_handling(content, result if 'result' in locals() else "API调用失败", is_api_error=True)
    LET fallback == fallback_handling(result.value, TRUE, Head(writes))
    IN  [ out |-> IF fallback.out.status = "raised" THEN fallback.out ELSE Returned(None),
          log |-> fallback.log ]

\* the loop "for attempt in range(max_retries + 1)" from the given attempt
\* on; result: the local variable of that name, prompt: current_content
RECURSIVE ValidationLoop(_, _, _, _, _, _)
ValidationLoop(api_key, outcomes, attempt, result, prompt, writes) ==
    IF attempt > MaxValidationRetries
    THEN \* the "return None" after the loop
         [out |-> Returned(None), log |-> <<>>]
    ELSE LET api == call_openai_api(api_key, outcomes[attempt + 1], attempt)
             sent == <<ApiCall(prompt)>> \o api.log
         IN  IF api.out.status = "raised"
             THEN \* except Exception as e
                  IF RetryLeft(attempt)
                  THEN LET rest == ValidationLoop(api_key, outcomes, attempt + 1, result,
                                                  "corrective", writes)
                       IN  [out |-> rest.out,
                            log |-> sent \o <<Sleep(ValidationWait)>> \o rest.log]
                  ELSE LET handled == ValidationExcept(attempt, result, writes)
                       IN  [out |-> handled.out, log |-> sent \o handled.log]
             ELSE IF api.out.value.text = "valid"
             THEN [out |-> Returned(Parsed(api.out.value)), log |-> sent]
             ELSE \* json.JSONDecodeError, or the schema check failed
                  IF RetryLeft(attempt)
                  THEN LET rest == ValidationLoop(api_key, outcomes, attempt + 1,
                                                  Bound(api.out.value), "corrective", writes)
                       IN  [out |-> rest.out,
                            log |-> sent \o <<Sleep(ValidationWait)>> \o rest.log]
                  ELSE \* fallback_handling(content, result); return None: inside
                       \* the try block, so what it raises reaches the handler
                       LET fallback == fallback_handling(api.out.value, FALSE, Head(writes))
                       IN  IF fallback.out.status = "ok"
                           THEN [out |-> Returned(None), log |-> sent \o fallback.log]
                           ELSE LET handled == ValidationExcept(attempt, Bound(api.out.value),
                                                                Tail(writes))
                                IN  [ out |-> handled.out,
                                      log |-> sent \o fallback.log \o handled.log ]

call_openai_api_with_validation(api_key, outcomes, writes) ==
    ValidationLoop(api_key, outcomes, 0, Unbound, "original", writes)

\* the calls explored: every value of the key, every course of the three
\* attempts and of the writes of fallback.json
ValidationCalls ==
    { [op |-> "call_openai_api_with_validation",
       arg |-> [api_key |-> k, outcomes |-> o, writes |-> w]] :
          k \in ApiKeys, o \in [1..(MaxValidationRetries + 1) -> ApiOutcomes],
          w \in [1..2 -> BOOLEAN] }

InitValidation ==
    /\ FreshMemory
    /\ index_type = "IndexFlatIP"
    /\ call \in ValidationCalls
    /\ ret = Pending

ValidationCall ==
    /\ call.op = "call_openai_api_with_validation"
    /\ ret.status = "pending"
    /\ LET result == call_openai_api_with_validation(call.arg.api_key, call.arg.outcomes,
                                                     call.arg.writes)
       IN  /\ ret' = result.out
           /\ requests' = result.log
    /\ UNCHANGED <<mem, disk, hist, index_type, model_name, running, heap, llm_calls, call>>

NextValidation == ValidationCall

\* the rule parser's validated request alone
SpecValidation == InitValidation /\ [][NextValidation]_vars

----------------------------------------------------------------------------
(* docx_chunker: chunk_documents_with_recursive_splitter *)

\* longest list of documents passed to one call
MaxDocs == 3

\* doc.metadata.get(k, default)
MetadataGet(metadata, k, default) == IF k \in DOMAIN metadata THEN metadata[k] ELSE default

\* The documents a caller may pass: sections with a title and a level as
\* sections_to_documents builds them, one of them with an empty and one
\* with a whitespace-only content, and a document whose metadata has no
\* title
Documents ==
    { [page_content |-> "two paragraphs", metadata |-> [title |-> "A", level |-> 1]],
      [page_content |-> "one paragraph",  metadata |-> [title |-> "B", level |-> 2]],
      [page_content |-> "",               metadata |-> [title |-> "C", level |-> 1]],
      [page_content |-> "   ",            metadata |-> [title |-> "D", level |-> 2]],
      [page_content |-> "one paragraph",  metadata |-> [level |-> 3]] }

\* "not content or not content.strip()"
IsBlank(content) == content \in {"", "   "}

\* splitter.split_text(content): the pieces of the content, in order
SplitText(content) ==
    CASE content = "two paragraphs" -> <<"first paragraph", "second paragraph">>
      [] content = "one paragraph"  -> <<"one paragraph">>
      [] OTHER -> <<>>

OriginalTitle_OfDefault(doc) == "unknown title"

\* original_title = doc.metadata.get("title", "未知标题")
OriginalTitle(doc) == MetadataGet(doc.metadata, "title", "unknown title")

\* original_level = doc.metadata.get("level", 0)
OriginalLevel(doc) == MetadataGet(doc.metadata, "level", 0)

FirstChunkIndex_PerDocument(global_chunk_index) == 0

\* the chunk_index of the first chunk of a document, given the value of
\* global_chunk_index when its loop starts
FirstChunkIndex(global_chunk_index) == global_chunk_index

\* the loop "for chunk_text in text_chunks": the chunk documents of one
\* document, numbered from first on
ChunkDocs(text_chunks, doc, first, source) ==
    [ i \in 1..Len(text_chunks) |->
        [ page_content |-> text_chunks[i],
          metadata |-> [ title |-> OriginalTitle(doc),
                         level |-> OriginalLevel(doc),
                         chunk_index |-> first + i - 1,
                         source |-> source ] ] ]

\* the loop "for doc in docs", from the first of the given documents on
RECURSIVE ChunkLoop(_, _, _)
ChunkLoop(docs, global_chunk_index, source) ==
    IF docs = <<>> THEN <<>>
    ELSE LET doc == Head(docs)
             content == doc.page_content
         IN  IF IsBlank(content)
             THEN ChunkLoop(Tail(docs), global_chunk_index, source)
             ELSE LET text_chunks == SplitText(content)
                  IN  ChunkDocs(text_chunks, doc, FirstChunkIndex(global_chunk_index), source)
                          \o ChunkLoop(Tail(docs), global_chunk_index + Len(text_chunks),
                                       source)

chunk_documents_with_recursive_splitter(docs, source) == ChunkLoop(docs, 0, source)

ChunkerCalls ==
    { [op |-> "chunk_documents_with_recursive_splitter",
       arg |-> [docs |-> ds, source |-> "policy.docx"]] : ds \in SeqsUpTo(Documents, MaxDocs) }

InitChunker ==
    /\ FreshMemory
    /\ index_type = "IndexFlatIP"
    /\ call \in ChunkerCalls
    /\ ret = Pending

ChunkDocuments ==
    /\ call.op = "chunk_documents_with_recursive_splitter"
    /\ ret.status = "pending"
    /\ ret' = Returned(chunk_documents_with_recursive_splitter(call.arg.docs, call.arg.source))
    /\ UNCHANGED <<mem, disk, hist, index_type, model_name, running, heap, llm_calls, call, requests>>

NextChunker == ChunkDocuments

\* the chunker alone
SpecChunker == InitChunker /\ [][NextChunker]_vars

----------------------------------------------------------------------------
(* Fragment lists that break the data contract *)

\* fragment dicts without a "chunk_id", and without a "text"
NoIdFragment == [text |-> "t2"]

NoTextFragment == [chunk_id |-> "b"]

\* lists of up to MaxBatch dicts, malformed ones among them
AnyBatches == SeqsUpTo(Fragments \cup {NoIdFragment, NoTextFragment}, MaxBatch)

BuildIndexAny ==
    /\ \E cs \in AnyBatches : build_index(cs, Reliable)
    /\ UNCHANGED heap

AddChunksAny ==
    /\ \E cs \in AnyBatches : add_chunks(cs, Reliable)
    /\ UNCHANGED heap

NextContract ==
    \/ BuildIndexAny
    \/ AddChunksAny

\* building and extending the index from lists of any dicts
SpecContract == Init /\ [][NextContract]_vars

----------------------------------------------------------------------------
(* Two threads on one indexer: a build_index or add_chunks call and a     *)
(* search or search_with_chunks call, statement by statement.  The code   *)
(* takes no lock; a step is one read or write of an attribute of the      *)
(* indexer, which is what the interpreter executes without a thread       *)
(* switch.                                                                *)

\* calls that the two threads start in one run
MaxCalls == 3

\* the process died of a memory error inside the FAISS library
Crashed == "crashed"

\* the statement of build_index / add_chunks that follows index.add
AfterIndexAdd(op) == IF op = "build_index" THEN "set_chunks" ELSE "map_id"

\* One statement of the writer w on the runtime data m: the writer and the
\* data afterwards.
WriterNext(w, m) ==
    CASE w.pc = "embed" ->
            \* embeddings = self.embedding_client.embed_texts(texts)
            [ w |-> [w EXCEPT !.embeddings = [k \in 1..Len(w.cs) |-> EmbedText(w.cs[k].text)],
                              !.pc = IF w.op = "build_index" THEN "new_index" ELSE "index_add"],
              m |-> m ]
      [] w.pc = "new_index" ->
            \* self.index = faiss.IndexFlatIP(dimension)
            [ w |-> [w EXCEPT !.pc = "index_add"],
              m |-> [m EXCEPT !.index = NewIndex(index_type, Shape1(w.embeddings))] ]
      [] w.pc = "index_add" ->
            \* self.index.add(embeddings) is entered: the library runs
            \* without the interpreter lock
            [ w |-> [w EXCEPT !.pc = "index_adding"], m |-> m ]
      [] w.pc = "index_adding" ->
            \* self.index.add(embeddings) returns
            [ w |-> [w EXCEPT !.pc = AfterIndexAdd(w.op), !.i = 0],
              m |-> [m EXCEPT !.index = IndexAdd(m.index, w.embeddings)] ]
      [] w.pc = "set_chunks" ->
            \* self.chunks = chunks
            [ w |-> [w EXCEPT !.pc = "reset_id_map"], m |-> [m EXCEPT !.chunks = w.cs] ]
      [] w.pc = "reset_id_map" ->
            \* self.id_map = {}
            [ w |-> [w EXCEPT !.pc = "reset_reverse_id_map"],
              m |-> [m EXCEPT !.id_map = EmptyDict] ]
      [] w.pc = "reset_reverse_id_map" ->
            \* self.reverse_id_map = {}
            [ w |-> [w EXCEPT !.pc = "map_id", !.i = 0],
              m |-> [m EXCEPT !.reverse_id_map = EmptyDict] ]
      [] w.pc = "map_id" ->
            \* self.id_map[faiss_id] = chunk_id
            LET faiss_id == IF w.op = "build_index" THEN w.i ELSE m.next_faiss_id
            IN  [ w |-> [w EXCEPT !.pc = "map_reverse_id"],
                  m |-> [m EXCEPT !.id_map = Put(@, faiss_id, w.cs[w.i + 1].chunk_id)] ]
      [] w.pc = "map_reverse_id" ->
            \* self.reverse_id_map[chunk_id] = faiss_id
            LET faiss_id == IF w.op = "build_index" THEN w.i ELSE m.next_faiss_id
                more == w.i + 1 < Len(w.cs)
            IN  [ w |-> IF w.op = "add_chunks" THEN [w EXCEPT !.pc = "append"]
                        ELSE IF more THEN [w EXCEPT !.pc = "map_id", !.i = @ + 1]
                        ELSE [w EXCEPT !.pc = "set_next_faiss_id"],
                  m |-> [m EXCEPT !.reverse_id_map = Put(@, w.cs[w.i + 1].chunk_id, faiss_id)] ]
      [] w.pc = "append" ->
            \* self.chunks.append(chunk)
            [ w |-> [w EXCEPT !.pc = "increment"],
              m |-> [m EXCEPT !.chunks = Append(@, w.cs[w.i + 1])] ]
      [] w.pc = "increment" ->
            \* self.next_faiss_id += 1
            [ w |-> IF w.i + 1 < Len(w.cs) THEN [w EXCEPT !.pc = "map_id", !.i = @ + 1]
                    ELSE [w EXCEPT !.pc = "return"],
              m |-> [m EXCEPT !.next_faiss_id = @ + 1] ]
      [] w.pc = "set_next_faiss_id" ->
            \* self.next_faiss_id = len(chunks)
            [ w |-> [w EXCEPT !.pc = "return"],
              m |-> [m EXCEPT !.next_faiss_id = Len(w.cs)] ]

\* the position from i on of the next hit that is not the padding -1;
\* 0 when there is none
NextHit(hits, i) ==
    LET real == { j \in i..Len(hits) : hits[j].faiss_id # -1 }
    IN  IF real = {} THEN 0 ELSE CHOOSE j \in real : \A k \in real : j <= k

\* the reader goes on to the hit after position r.i, or to its return
ToNextHit(r) ==
    LET j == NextHit(r.hits, r.i + 1)
    IN  IF j = 0 THEN [r EXCEPT !.pc = "return"] ELSE [r EXCEPT !.pc = "get_id", !.i = j]

\* What index.search may see while index.add runs in the other thread
\* without the interpreter lock (a data race inside the library): the
\* index with none, some or all of the new vectors
IndexesDuringAdd(ix, embeddings) ==
    { IndexAdd(ix, SubSeq(embeddings, 1, k)) : k \in 0..Len(embeddings) }

\* the hits of index.search with, next to each, the text whose vector was
\* matched (kept for the properties; the code has the position only)
HitsWithMatch(ix, query, top_k) ==
    LET hits == IndexSearch(ix, query, top_k)
    IN  [ j \in 1..Len(hits) |->
            [ faiss_id |-> hits[j].faiss_id, score |-> hits[j].score,
              matched  |-> IF hits[j].faiss_id = -1 THEN ""
                           ELSE ix.vecs[hits[j].faiss_id + 1].of ] ]

\* One statement of the reader r on the runtime data m while the writer is
\* at w: the readers it may become.  pc "raised" carries the exception in
\* chunk_id; overlapped records that a writer was inside its call at some
\* time of the reader's call (kept for the properties).
ReaderNext(r, m, w) ==
    CASE r.pc = "embed" ->
            \* query_embedding = self.embedding_client.embed_query(query)
            { [r EXCEPT !.pc = "index_search"] }
      [] r.pc = "index_search" ->
            \* distances, indices = self.index.search(query_embedding, top_k)
            LET seen == IF w.pc = "index_adding"
                        THEN IndexesDuringAdd(m.index, w.embeddings)
                        ELSE {m.index}
            IN  { ToNextHit([r EXCEPT !.hits = HitsWithMatch(ix, r.query, r.top_k), !.i = 0])
                      : ix \in seen }
                  \cup (IF w.pc = "index_adding"
                        THEN {[r EXCEPT !.pc = "raised", !.chunk_id = Crashed]}
                        ELSE {})
      [] r.pc = "get_id" ->
            \* chunk_id = self.id_map.get(faiss_id)
            LET faiss_id == r.hits[r.i].faiss_id
                found == faiss_id \in DOMAIN m.id_map
            IN  IF ~found THEN { ToNextHit(r) }
                ELSE IF r.op = "search"
                THEN { ToNextHit([r EXCEPT !.results =
                            Append(@, [ chunk_id |-> m.id_map[faiss_id],
                                        score    |-> Round4(r.hits[r.i].score),
                                        text     |-> "",
                                        matched  |-> r.hits[r.i].matched ])]) }
                ELSE { [r EXCEPT !.pc = "check_len", !.chunk_id = m.id_map[faiss_id]] }
      [] r.pc = "check_len" ->
            \* faiss_id < len(self.chunks)
            IF r.hits[r.i].faiss_id < Len(m.chunks)
            THEN { [r EXCEPT !.pc = "get_chunk"] }
            ELSE { ToNextHit(r) }
      [] r.pc = "get_chunk" ->
            \* chunk = self.chunks[faiss_id]; results.append({...})
            LET faiss_id == r.hits[r.i].faiss_id
            IN  IF faiss_id >= Len(m.chunks)
                THEN { [r EXCEPT !.pc = "raised", !.chunk_id = "IndexError"] }
                ELSE { ToNextHit([r EXCEPT !.results =
                            Append(@, [ chunk_id |-> r.chunk_id,
                                        score    |-> Round4(r.hits[r.i].score),
                                        text     |-> m.chunks[faiss_id + 1].text,
                                        matched  |-> r.hits[r.i].matched ])]) }

\* the results as the caller gets them
ResultsReturned(r) ==
    [ k \in 1..Len(r.results) |->
        IF r.op = "search"
        THEN [chunk_id |-> r.results[k].chunk_id, score |-> r.results[k].score]
        ELSE [chunk_id |-> r.results[k].chunk_id, score |-> r.results[k].score,
              text |-> r.results[k].text] ]

\* the thread is inside a call
Active(thread) == thread.pc \notin {"idle", "returned", "raised"}

\* the first build_index, before a second thread exists
BuildFirst ==
    /\ ~index.built
    /\ running = NoCalls
    /\ \E cs \in Batches : build_index(cs, Reliable)
    /\ UNCHANGED heap

\* a thread calls build_index or add_chunks with a non-empty list; the
\* checks at the top of the call pass
StartWriter ==
    /\ index.built
    /\ running.writer.pc = "idle"
    /\ running.reader.pc # "raised"
    /\ running.started < MaxCalls
    /\ \E op \in {"build_index", "add_chunks"}, cs \in Batches \ {<<>>} :
          /\ op = "add_chunks" =>
                /\ Len(chunks) + Len(cs) <= MaxChunks
                /\ ntotal(index) + Len(cs) <= MaxChunks
                /\ next_faiss_id + Len(cs) <= MaxChunks
          /\ running' = [running EXCEPT !.writer =
                            [pc |-> "embed", op |-> op, cs |-> cs, embeddings |-> <<>>, i |-> 0],
                                           !.reader.overlapped = @ \/ Active(running.reader),
                                           !.started = @ + 1]
    /\ UNCHANGED <<mem, disk, hist, call, ret, llm_calls, requests, index_type, model_name, heap>>

WriterStep ==
    /\ running.writer.pc \notin {"idle", "return"}
    /\ running.reader.chunk_id # Crashed
    /\ LET next == WriterNext(running.writer, MemRecord)
       IN  /\ running' = [running EXCEPT !.writer = next.w]
           /\ index' = next.m.index
           /\ chunks' = next.m.chunks
           /\ id_map' = next.m.id_map
           /\ reverse_id_map' = next.m.reverse_id_map
           /\ next_faiss_id' = next.m.next_faiss_id
    /\ UNCHANGED <<disk, hist, call, ret, llm_calls, requests, index_type, model_name, heap>>

WriterReturn ==
    /\ running.writer.pc = "return"
    /\ running.reader.chunk_id # Crashed
    /\ call' = [op |-> running.writer.op, arg |-> Len(running.writer.cs)]
    /\ ret' = Returned(None)
    /\ running' = [running EXCEPT !.writer = IdleWriter]
    /\ UNCHANGED <<mem, disk, hist, llm_calls, requests, index_type, model_name, heap>>

\* the other thread calls search or search_with_chunks on the built index
StartReader ==
    /\ index.built
    /\ running.reader.pc \in {"idle", "returned"}
    /\ running.started < MaxCalls
    /\ \E op \in {"search", "search_with_chunks"} :
          running' = [running EXCEPT !.reader =
                         [IdleReader EXCEPT !.pc = "embed", !.op = op, !.query = "q1",
                                            !.top_k = 2,
                                            !.overlapped = Active(running.writer)],
                                        !.started = @ + 1]
    /\ UNCHANGED <<mem, disk, hist, call, ret, llm_calls, requests, index_type, model_name, heap>>

ReaderStep ==
    /\ running.reader.pc \notin {"idle", "return", "returned", "raised"}
    /\ \E r \in ReaderNext(running.reader, MemRecord, running.writer) :
          /\ running' = [running EXCEPT !.reader = r]
          /\ IF r.pc = "raised"
             THEN /\ call' = [op |-> r.op, arg |-> [query |-> r.query, top_k |-> r.top_k,
                                                   score_threshold |-> NoThreshold]]
                  /\ ret' = Raised(r.chunk_id)
             ELSE UNCHANGED <<call, ret>>
    /\ UNCHANGED <<mem, disk, hist, llm_calls, requests, index_type, model_name, heap>>

\* return results; the reader keeps what it returned until its next call
ReaderReturn ==
    /\ running.reader.pc = "return"
    /\ call' = [op |-> running.reader.op,
                arg |-> [query |-> running.reader.query, top_k |-> running.reader.top_k,
                         score_threshold |-> NoThreshold]]
    /\ ret' = Returned(ResultsReturned(running.reader))
    /\ running' = [running EXCEPT !.reader.pc = "returned"]
    /\ UNCHANGED <<mem, disk, hist, llm_calls, requests, index_type, model_name, heap>>

NextConcurrent ==
    \/ BuildFirst
    \/ StartWriter
    \/ WriterStep
    \/ WriterReturn
    \/ StartReader
    \/ ReaderStep
    \/ ReaderReturn

\* a writer and a reader on one indexer
SpecConcurrent == Init /\ [][NextConcurrent]_vars

----------------------------------------------------------------------------
(* Lists shared with the caller.  The caller keeps the list L it passes   *)
(* to build_index, the lists M it passes to add_chunks and the answers    *)
(* ask returns; M is a list other than L.                                 *)

\* appends a caller makes to a citations list it was given
MaxAppends == 2

\* build_index(L) with a list the caller keeps: "self.chunks = chunks"
\* makes self.chunks that very list
BuildIndexOfL ==
    /\ ~index.built
    /\ \E cs \in Batches :
          /\ build_index(cs, Reliable)
          /\ heap' = IF ret'.status = "ok"
                     THEN [heap EXCEPT !.L = cs, !.given_L = cs, !.chunks_is_L = TRUE]
                     ELSE heap

\* add_chunks(M): "self.chunks.append(chunk)" appends to the list that
\* self.chunks is; M is only read
AddChunksOfM ==
    /\ index.built
    /\ \E cs \in Batches :
          /\ add_chunks(cs, Reliable)
          /\ heap' = [heap EXCEPT !.M = cs, !.given_M = cs,
                                  !.L = IF heap.chunks_is_L THEN chunks' ELSE @]

\* ask with the default configuration; q3 retrieves nothing
AskOnce ==
    /\ \E q \in {"q1", "q3"}, resp \in SomeChatOutcomes :
          ask(q, CHOOSE cfg \in RAGConfigs : cfg.top_k = 5, resp, Reliable)
    /\ UNCHANGED heap

\* the caller appends an identifier to the citations list of the
\* no-context answer it was just given, which is the list under
\* NO_CONTEXT_RESPONSE["citations"]
CallerAppendsCitation ==
    /\ call.op = "ask"
    /\ ret.status = "ok"
    /\ ~ret.value.has_context
    /\ Len(heap.no_context_citations) < MaxAppends
    /\ \E id \in ChunkIds :
          heap' = [heap EXCEPT !.no_context_citations = Append(@, id)]
    /\ UNCHANGED <<mem, disk, hist, call, ret, llm_calls, requests, index_type, model_name,
                   running>>

NextAlias ==
    \/ BuildIndexOfL
    \/ AddChunksOfM
    \/ AskOnce
    \/ CallerAppendsCitation

\* one indexer and one engine used by a caller that keeps what it passed
\* and what it was given
SpecAlias == Init /\ [][NextAlias]_vars

----------------------------------------------------------------------------
(* Properties of the index life cycle *)

Succeeded(op) == call.op = op /\ ret.status = "ok"

\* C1: after any sequence of successful build_index and add_chunks calls,
\* next_faiss_id equals len(chunks) and index.ntotal, and every key of
\* id_map lies in 0..next_faiss_id-1.
C1_CountsAgree ==
    only_build_add =>
        /\ next_faiss_id = Len(chunks)
        /\ index.built => next_faiss_id = ntotal(index)
        /\ DOMAIN id_map \subseteq 0..(next_faiss_id - 1)

\* an add_chunks call has grown an index made by build_index to three fragments
C1_Witness ==
    /\ only_build_add
    /\ Succeeded("add_chunks")
    /\ call.arg >= 1
    /\ next_faiss_id = 3
    /\ ntotal(index) = 3

\* C2: after any sequence of successful build_index and add_chunks calls,
\* id_map and reverse_id_map form a bijection: distinct positions map to
\* distinct fragment ids, and reverse_id_map[id_map[p]] = p for every
\* assigned position p.
C2_Bijection ==
    only_build_add =>
        /\ \A p, q \in DOMAIN id_map : p # q => id_map[p] # id_map[q]
        /\ \A p \in DOMAIN id_map :
              /\ id_map[p] \in DOMAIN reverse_id_map
              /\ reverse_id_map[id_map[p]] = p

\* the three counts kept by a snapshot directory whose four files exist
SnapshotCountsAgree(d) ==
    /\ Len(d.index_file.data.vecs) = Len(d.chunks_file.data)
    /\ Len(d.chunks_file.data) = Cardinality(DOMAIN d.id_map_file.data.faiss_to_chunk)

\* C5: load_index fails with an integrity error, instead of returning
\* normally, whenever the snapshot's vector count, number of fragment
\* records and identity-map size are not all equal.
C5_LoadRejectsMismatch ==
    (call.op = "load_index" /\ SnapshotComplete(disk) /\ ~SnapshotCountsAgree(disk))
        => ret.status = "raised"

MemCountsAgree ==
    /\ ntotal(index) = Len(chunks)
    /\ Len(chunks) = Cardinality(DOMAIN id_map)

\* C6: if save_index into a directory that already holds a consistent
\* snapshot fails after writing some but not all of the four files, a later
\* load_index from that directory does not complete successfully with a
\* vector count, fragment count and identity-map size that disagree.
C6_NoTornSnapshotLoaded ==
    (Succeeded("load_index") /\ ~saved.valid) => MemCountsAgree

\* C7: save_index followed immediately by load_index restores the same
\* fragments in the same order, the same id_map and reverse_id_map and
\* exactly the same next_faiss_id.
C7_SaveLoadRoundTrip ==
    (Succeeded("load_index") /\ saved.valid) =>
        /\ mem = saved.mem
        /\ \A q \in Queries, k \in TopKs, thr \in Thresholds :
              /\ search_results(index, id_map, q, k, thr)
                    = search_results(saved.mem[1], saved.mem[3], q, k, thr)
              /\ search_with_chunks_results(index, chunks, id_map, q, k, thr)
                    = search_with_chunks_results(saved.mem[1], saved.mem[2], saved.mem[3],
                                                 q, k, thr)

\* a snapshot of at least two fragments was loaded back
C7_Witness ==
    /\ Succeeded("load_index")
    /\ saved.valid
    /\ next_faiss_id >= 2
    /\ Cardinality(DOMAIN reverse_id_map) >= 2

\* C8: each fragment added by add_chunks gets the position next_faiss_id,
\* which is then incremented by 1: the positions assigned are strictly
\* increasing in input order, and no position that is already assigned is
\* given to another fragment, also after save_index and load_index.
C8_PositionsNeverReused ==
    [][ (call'.op = "add_chunks" /\ ret'.status = "ok") =>
          LET n == call'.arg
              first == next_faiss_id
          IN  /\ next_faiss_id' = first + n
              /\ Len(chunks') = Len(chunks) + n
              /\ \A i \in 1..n :
                    /\ (first + i - 1) \notin DOMAIN id_map
                    /\ id_map'[first + i - 1] = chunks'[Len(chunks) + i].chunk_id
              /\ DOMAIN id_map' = (DOMAIN id_map) \cup (first..(first + n - 1))
              /\ \A p \in DOMAIN id_map : id_map'[p] = id_map[p]
      ]_vars

\* fragments were added to an index restored by load_index
C8_Witness ==
    /\ ~only_build_add
    /\ Succeeded("add_chunks")
    /\ call.arg = 2
    /\ saved.valid
    /\ next_faiss_id = 3

\* a chunk_id of the batch is already mapped, or occurs twice in the batch
HasDuplicateId(cs, mapped) ==
    \/ \E i \in 1..Len(cs) : cs[i].chunk_id \in mapped
    \/ \E i, j \in 1..Len(cs) : i # j /\ cs[i].chunk_id = cs[j].chunk_id

\* C9: adding a fragment whose chunk_id is already mapped (by add_chunks
\* after a build, or by a batch that contains the same chunk_id twice) fails
\* with a duplicate-identifier error and leaves the index, fragments, both
\* maps and next_faiss_id unmodified.
C9_DuplicateRejected ==
    [][ /\ \A cs \in Batches :
              (add_chunks(cs, Reliable) /\ index.built /\ HasDuplicateId(cs, DOMAIN reverse_id_map))
                  => (ret'.status = "raised" /\ mem' = mem)
        /\ \A cs \in Batches :
              (build_index(cs, Reliable) /\ HasDuplicateId(cs, {}))
                  => (ret'.status = "raised" /\ mem' = mem)
      ]_vars

----------------------------------------------------------------------------
(* Properties of retrieval and of ask *)

\* what _retrieve_chunks returned for the ask call just made
RetrievedForCall ==
    retrieve_chunks(index, chunks, id_map, call.arg.question, call.arg.config)

NoCandidateReaches ==
    LET hits == IndexSearch(index, call.arg.question, call.arg.config.top_k)
    IN  \A i \in 1..Len(hits) :
            hits[i].faiss_id # -1 => hits[i].score < call.arg.config.score_threshold.value

\* the embedding request for the question of the ask call was answered
QuestionEmbedded == \E i \in 1..Len(requests) : requests[i].kind = "embed" /\ requests[i].ok

HitsForCall == IndexSearch(index, call.arg.query, call.arg.top_k)

\* a hit that is a candidate (it names a fragment of the index) and whose
\* raw score is at or above the threshold of the call
KeptHit(h) ==
    /\ h.faiss_id # -1
    /\ h.faiss_id \in DOMAIN id_map
    /\ call.arg.score_threshold.set => h.score >= call.arg.score_threshold.value

\* C10: with a score_threshold set, search and search_with_chunks return
\* exactly the candidates among the top_k index hits whose raw score is
\* greater than or equal to score_threshold, in the index's order: a
\* candidate strictly below the threshold is excluded, one exactly equal to
\* it is kept, and the score reported for a kept candidate is its own
\* (rounded) score, not the threshold.
C10_ThresholdFilter ==
    LET kept == SelectSeq(HitsForCall, KeptHit)
    IN  /\ Succeeded("search") =>
              ret.value = [i \in 1..Len(kept) |->
                              [ chunk_id |-> id_map[kept[i].faiss_id],
                                score    |-> Round4(kept[i].score) ]]
        /\ Succeeded("search_with_chunks") =>
              ret.value = [i \in 1..Len(SelectSeq(kept, LAMBDA h : h.faiss_id < Len(chunks))) |->
                              LET h == SelectSeq(kept, LAMBDA x : x.faiss_id < Len(chunks))[i]
                              IN  [ chunk_id |-> id_map[h.faiss_id],
                                    score    |-> Round4(h.score),
                                    text     |-> chunks[h.faiss_id + 1].text ]]

\* a search with a threshold met one hit exactly at the threshold, which it
\* returned, and one strictly below it, which it dropped
C10_Witness ==
    /\ Succeeded("search_with_chunks")
    /\ call.arg.score_threshold.set
    /\ \E i \in 1..Len(HitsForCall) :
          /\ HitsForCall[i].faiss_id # -1
          /\ HitsForCall[i].score = call.arg.score_threshold.value
    /\ \E i \in 1..Len(HitsForCall) :
          /\ HitsForCall[i].faiss_id # -1
          /\ HitsForCall[i].score < call.arg.score_threshold.value
    /\ Len(ret.value) = 1

----------------------------------------------------------------------------
(* Properties of thresholds and of the retrieval limits *)

\* the fragment ids of a list of results
IdsOf(results) == { results[i].chunk_id : i \in 1..Len(results) }

\* the thresholds that are numbers
SetThresholds == { thr \in Thresholds : thr.set }

\* RAGConfig values: top_k, max_chunks and the threshold vary
RetrievalConfigs ==
    { [top_k |-> k, min_chunks |-> 1, max_chunks |-> m, score_threshold |-> thr] :
          k \in TopKs, m \in 1..MaxChunks, thr \in SetThresholds }

\* C11: for the same index state, query and top_k, and any two thresholds
\* t1 < t2, the set of fragment ids retrieved with threshold t2 (by search,
\* and by _retrieve_chunks) is a subset of the set retrieved with threshold t1.
C11_ThresholdMonotone ==
    index.built =>
        \A q \in Queries, k \in TopKs, t1, t2 \in SetThresholds :
            t1.value < t2.value =>
                /\ IdsOf(search_results(index, id_map, q, k, t2))
                      \subseteq IdsOf(search_results(index, id_map, q, k, t1))
                /\ \A cfg \in RetrievalConfigs :
                      IdsOf(retrieve_chunks(index, chunks, id_map, q,
                                            [cfg EXCEPT !.top_k = k, !.score_threshold = t2]))
                          \subseteq
                      IdsOf(retrieve_chunks(index, chunks, id_map, q,
                                            [cfg EXCEPT !.top_k = k, !.score_threshold = t1]))

\* the candidates among the top_k hits that pass the threshold of a
\* configuration, in the order the index ranks them
PassingCandidates(q, cfg) ==
    LET Passes(h) ==
            /\ h.faiss_id # -1
            /\ h.faiss_id \in DOMAIN id_map
            /\ h.faiss_id < Len(chunks)
            /\ h.score >= cfg.score_threshold.value
        kept == SelectSeq(IndexSearch(index, q, cfg.top_k), Passes)
    IN  [i \in 1..Len(kept) |->
            [ chunk_id |-> id_map[kept[i].faiss_id],
              score    |-> Round4(kept[i].score),
              text     |-> chunks[kept[i].faiss_id + 1].text ]]

----------------------------------------------------------------------------
(* Properties of the answer that ask builds from the model's response *)

\* the chat-completion request of the ask call just made was answered
ModelResponded ==
    /\ call.op = "ask"
    /\ llm_calls >= 1
    /\ call.arg.response # ChatFailure

\* C13: when retrieval returned at least one fragment and the model's
\* response cannot be decoded as JSON, ask returns answer equal to the raw
\* response text unchanged, empty citations, empty sources and has_context
\* true.
C13_RawTextFallback ==
    (ModelResponded /\ call.arg.response.parsed.kind = "invalid") =>
        /\ ret.status = "ok"
        /\ ret.value = [ answer      |-> call.arg.response.raw,
                         citations   |-> <<>>,
                         sources     |-> <<>>,
                         has_context |-> TRUE ]

\* the model answered with text in a code fence that is not JSON
C13_Witness ==
    /\ ModelResponded
    /\ RetrievedForCall # <<>>
    /\ call.arg.response.raw = "fenced_plain_text"
    /\ ret.status = "ok"

\* C14: once retrieval has returned a non-empty set and the model has
\* returned a response, ask returns an answer and never raises, for every
\* response text: text that is not JSON, JSON that is not an object, and an
\* object whose citations field is not a list of strings.
C14_NeverRaisesOnResponse ==
    ModelResponded => ret.status = "ok"

\* the positions of the chat-completion requests in the log of the call
ChatEntries == { i \in 1..Len(requests) : requests[i].kind = "chat" }

\* C15: each ask call whose retrieval result is non-empty sends exactly one
\* request to the language model, after retrieval has finished; if that
\* request fails, ask raises without sending a second one.  A call whose
\* retrieval raised or returned nothing sends none.
C15_OneModelCall ==
    call.op = "ask" =>
        IF index.built /\ QuestionEmbedded /\ RetrievedForCall # <<>>
        THEN /\ llm_calls = 1
             /\ ChatEntries = { Len(requests) }
             /\ ~requests[Len(requests)].ok =>
                   /\ call.arg.response = ChatFailure
                   /\ ret = Raised("APIError")
        ELSE /\ llm_calls = 0
             /\ ChatEntries = {}

\* the question was embedded at the second attempt, fragments were
\* retrieved, and the one request to the language model failed
C15_Witness ==
    /\ call.op = "ask"
    /\ NumEmbeds(requests) = 2
    /\ RetrievedForCall # <<>>
    /\ llm_calls = 1
    /\ ~requests[Len(requests)].ok
    /\ ret.status = "raised"

\* the text of a source entry: the whole text when it has at most 200
\* characters, otherwise its first 200 characters and "..."
ExpectedPreview(t) ==
    [ of       |-> t,
      chars    |-> IF TextLength(t) <= 200 THEN TextLength(t) ELSE 200,
      ellipsis |-> ~(TextLength(t) <= 200) ]

\* C16: in every answer that ask returns, sources holds exactly one entry
\* for each retrieved fragment whose chunk_id is in the returned citations
\* and none for any other fragment, in retrieval order; each entry's text is
\* the whole fragment text when it has at most 200 characters and otherwise
\* its first 200 characters followed by "...".
C16_SourcesOfCitations ==
    Succeeded("ask") =>
        LET Cited(c) == \E i \in 1..Len(ret.value.citations) :
                            ret.value.citations[i] = c.chunk_id
            cited == SelectSeq(RetrievedForCall, Cited)
        IN  ret.value.sources =
                [i \in 1..Len(cited) |->
                    [ chunk_id |-> cited[i].chunk_id,
                      score    |-> cited[i].score,
                      text     |-> ExpectedPreview(cited[i].text) ]]

\* an answer cites two retrieved fragments, one of exactly 200 characters
\* and a longer one
C16_Witness ==
    /\ Succeeded("ask")
    /\ Len(ret.value.sources) = 2
    /\ \E i \in 1..2 : ret.value.sources[i].text = [of |-> "t1", chars |-> 200, ellipsis |-> FALSE]
    /\ \E i \in 1..2 : ret.value.sources[i].text = [of |-> "t2", chars |-> 200, ellipsis |-> TRUE]

----------------------------------------------------------------------------
(* Properties of the embedding client *)

\* the number of failed embedding requests in a log
NumFailedEmbeds(log) ==
    Cardinality({ i \in 1..Len(log) : log[i].kind = "embed" /\ ~log[i].ok })

\* C17: if embedding fails after exhausting its retries during build_index
\* or add_chunks, the call raises and the index, chunks, id_map,
\* reverse_id_map and next_faiss_id are exactly as before the call, also when
\* earlier batches of the same call had succeeded.
C17_EmbeddingFailureFrame ==
    [][ (/\ call'.op \in {"build_index", "add_chunks"}
         /\ \/ NumFailedEmbeds(requests') >= DefaultMaxRetries
            \/ ret'.exc = EmbeddingFailed)
            => /\ ret' = Raised(EmbeddingFailed)
               /\ mem' = mem
      ]_vars

\* add_chunks on a built index raised after its first batch was embedded
C17_Witness ==
    /\ call.op = "add_chunks"
    /\ ret = Raised(EmbeddingFailed)
    /\ index.built
    /\ Len(requests) > DefaultMaxRetries
    /\ requests[1].kind = "embed"
    /\ requests[1].ok

\* the positions of the embedding requests in the log of the call
EmbedEntries == { i \in 1..Len(requests) : requests[i].kind = "embed" }

\* the attempt number, counted from 0, of the embedding request at position i
AttemptOf(i) == Cardinality({ j \in EmbedEntries : j < i })

\* C18: for max_retries = n >= 1, _embed_batch_with_retry sends at most n
\* requests for one batch, stops at the first success, sleeps 2^a seconds
\* after failed attempt number a (counted from 0) whenever another attempt
\* follows, and after the n-th failure raises an error to the caller instead
\* of returning a value.
C18_BoundedRetries ==
    (/\ call.op = "_embed_batch_with_retry"
     /\ ret.status # "pending"
     /\ call.arg.max_retries >= 1)
        => LET n == call.arg.max_retries
           IN  /\ Cardinality(EmbedEntries) \in 1..n
               /\ \A i \in EmbedEntries :
                     /\ requests[i].texts = Len(call.arg.texts)
                     /\ requests[i].ok =>
                           /\ i = Len(requests)
                           /\ ret.status = "ok"
                     /\ (~requests[i].ok /\ AttemptOf(i) < n - 1) =>
                           /\ i < Len(requests)
                           /\ requests[i + 1] = Sleep(2 ^ AttemptOf(i))
                           /\ i + 2 \in EmbedEntries
                     /\ (~requests[i].ok /\ AttemptOf(i) = n - 1) =>
                           /\ i = Len(requests)
                           /\ ret = Raised(EmbeddingFailed)
               /\ \A i \in 1..Len(requests) :
                     requests[i].kind = "sleep" => (i - 1) \in EmbedEntries
               /\ ret.status = "ok" => requests[Len(requests)].ok
               /\ NumFailedEmbeds(requests) = n => ret.status = "raised"

\* with max_retries = 4 a batch was embedded at the fourth attempt, after
\* sleeps of 1, 2 and 4 seconds
C18_Witness ==
    /\ call.op = "_embed_batch_with_retry"
    /\ call.arg.max_retries = 4
    /\ ret.status = "ok"
    /\ Len(requests) = 7
    /\ requests[6] = Sleep(4)

\* an embed_texts call whose requests were answered, at the latest after
\* retries
EmbedTextsAnswered ==
    /\ call.op = "embed_texts"
    /\ ret.status # "pending"
    /\ call.arg.max_retries >= 1
    /\ ret.exc # EmbeddingFailed

\* one vector per input text, vector i being the embedding of text i
OneVectorPerText ==
    /\ ret.status = "ok"
    /\ ret.value = [i \in 1..Len(call.arg.texts) |-> EmbedText(call.arg.texts[i])]

\* C19: embed_texts returns exactly one vector per input text and vector i
\* is the embedding of input text i, for every input length and batch_size,
\* including inputs that span several batches, batches that succeeded only
\* after a retry, and responses whose items arrive out of index order.
C19_OneVectorPerText ==
    EmbedTextsAnswered => OneVectorPerText

\* the same for inputs of at least one text
OneVectorPerTextOfNonEmptyInput ==
    (EmbedTextsAnswered /\ call.arg.texts # <<>>) => OneVectorPerText

----------------------------------------------------------------------------
(* Properties of an indexer that was not initialized *)

\* C20: on an indexer on which neither build_index nor load_index has
\* succeeded, search, search_with_chunks, add_chunks and save_index each
\* fail with the not-initialized error, send no embedding request, write no
\* file and leave the indexer state unchanged.
C20_NotInitializedRejected ==
    [][ (/\ ~initialized
         /\ call'.op \in {"search", "search_with_chunks", "add_chunks", "save_index"})
            => /\ ret' = Raised("RuntimeError")
               /\ requests' = <<>>
               /\ disk' = disk
               /\ mem' = mem
      ]_vars

\* the same on an indexer that has made no call at all, or only calls that
\* assigned nothing
NeverAssignedRejected ==
    [][ (/\ ~index.built
         /\ call'.op \in {"search", "search_with_chunks", "add_chunks", "save_index"})
            => /\ ret' = Raised("RuntimeError")
               /\ requests' = <<>>
               /\ disk' = disk
               /\ mem' = mem
      ]_vars

----------------------------------------------------------------------------
(* Properties of construction *)

Constructors == {"EmbeddingClient", "FAISSIndexer", "LLMClient", "RAGEngine"}

\* C21: when DASHSCOPE_API_KEY is unset or empty, constructing an
\* EmbeddingClient, a FAISSIndexer, an LLMClient or a RAGEngine raises the
\* configuration error (ValueError), sends no request, and leaves the
\* indexer's data and the snapshot directory as they were: no snapshot is
\* loaded.
C21_MissingKeyRejected ==
    [][ (call'.op \in Constructors /\ call'.arg.api_key \in {UnsetKey, EmptyKey})
            => /\ ret' = Raised("ValueError")
               /\ requests' = <<>>
               /\ mem' = mem
               /\ disk' = disk
               /\ initialized' = initialized
      ]_vars

\* RAGEngine(None) was attempted with an empty key while the directory
\* holds a snapshot and the program holds no loaded indexer
C21_Witness ==
    /\ call.op = "RAGEngine"
    /\ call.arg.indexer = "None"
    /\ call.arg.api_key = EmptyKey
    /\ SnapshotComplete(disk)
    /\ ~index.built
    /\ ret = Raised("ValueError")

\* the directory holds a whole snapshot whose metadata names another model
\* than the configured one
SnapshotOfOtherModel ==
    /\ SnapshotComplete(disk)
    /\ disk.embedding_meta_file.data.model_name # model_name

\* the indexer's data is what the snapshot in the directory holds
RestoredFromDisk ==
    /\ index = ReadIndexFile(disk.index_file)
    /\ chunks = ReadChunksFile(disk.chunks_file)
    /\ id_map = ReadIdMap(disk.id_map_file)
    /\ reverse_id_map = ReadReverseIdMap(disk.id_map_file)
    /\ next_faiss_id = ReadNextId(disk.id_map_file)

\* C22: when the snapshot's metadata names another model than the
\* configured one, load_index returns normally with index, fragments, both
\* maps and next_faiss_id restored, and the searches that follow on the
\* restored data return results.
C22_ModelMismatchServed ==
    SnapshotOfOtherModel =>
        /\ call.op = "load_index" => (ret = Returned(None) /\ RestoredFromDisk)
        /\ (call.op \in {"search", "search_with_chunks"} /\ RestoredFromDisk)
               => ret.status = "ok"

\* the part of C22 about load_index alone
LoadAcceptsOtherModel ==
    (SnapshotOfOtherModel /\ call.op = "load_index") =>
        (ret = Returned(None) /\ RestoredFromDisk)

----------------------------------------------------------------------------
(* Properties of call_openai_api_with_validation *)

\* the entries of a kind in the log of the call
EntriesOf(kind) == { i \in 1..Len(requests) : requests[i].kind = kind }

ValidationDone == call.op = "call_openai_api_with_validation" /\ ret.status # "pending"

\* C25: with DASHSCOPE_API_KEY missing, call_openai_api_with_validation
\* surfaces the error of the first attempt: it raises, makes one attempt
\* only and does not wait.
C25_MissingKeyNotRetried ==
    (ValidationDone /\ call.arg.api_key \in {UnsetKey, EmptyKey}) =>
        /\ ret.status = "raised"
        /\ Cardinality(EntriesOf("call_openai_api")) = 1
        /\ EntriesOf("sleep") = {}

----------------------------------------------------------------------------
(* Properties of chunk_documents_with_recursive_splitter *)

ChunkerDone ==
    call.op = "chunk_documents_with_recursive_splitter" /\ ret.status = "ok"

\* C26: the chunk at output position i (from 0) has chunk_index i, over
\* all documents of the call, also when documents with empty or
\* whitespace-only content are skipped.
C26_ChunkIndexConsecutive ==
    ChunkerDone =>
        \A i \in 1..Len(ret.value) : ret.value[i].metadata.chunk_index = i - 1

\* a call whose second document is skipped and whose third is chunked
C26_Witness ==
    /\ ChunkerDone
    /\ Len(call.arg.docs) = 3
    /\ ~IsBlank(call.arg.docs[1].page_content)
    /\ IsBlank(call.arg.docs[2].page_content)
    /\ ~IsBlank(call.arg.docs[3].page_content)
    /\ Len(ret.value) = 3

\* owner assigns to every output chunk the document it was split from:
\* it never goes back to an earlier document, the chunk carries that
\* document's title and level, and the chunks of each document are the
\* pieces of its content, in order
IsOwner(owner, docs, out) ==
    /\ \A i \in 1..Len(out) : \A j \in 1..Len(out) : i <= j => owner[i] <= owner[j]
    /\ \A i \in 1..Len(out) :
          LET doc == docs[owner[i]]
          IN  /\ "title" \in DOMAIN doc.metadata => out[i].metadata.title = doc.metadata.title
              /\ "level" \in DOMAIN doc.metadata => out[i].metadata.level = doc.metadata.level
    /\ \A d \in 1..Len(docs) :
          LET mine == { i \in 1..Len(out) : owner[i] = d }
              pieces == IF IsBlank(docs[d].page_content) THEN <<>>
                        ELSE SplitText(docs[d].page_content)
          IN  /\ Cardinality(mine) = Len(pieces)
              /\ \A i \in mine :
                    out[i].page_content = pieces[1 + Cardinality({ k \in mine : k < i })]

\* C27: every chunk carries the title and level of the document it was
\* split from; the chunks of one document are contiguous and precede the
\* chunks of every later document.
C27_ChunksKeepTitleAndOrder ==
    ChunkerDone =>
        \E owner \in [1..Len(ret.value) -> 1..Len(call.arg.docs)] :
            IsOwner(owner, call.arg.docs, ret.value)

\* two documents with different titles were chunked, the first into two
\* chunks
C27_Witness ==
    /\ ChunkerDone
    /\ Len(call.arg.docs) >= 2
    /\ Len(ret.value) = 3
    /\ ret.value[1].metadata.title = "A"
    /\ ret.value[2].metadata.title = "A"
    /\ ret.value[3].metadata.title = "B"

----------------------------------------------------------------------------
(* Properties of the number of fragments retrieved *)

\* every entry of the list is a hit of the index for the question, with a
\* score at or above the threshold of the configuration
AllReachThreshold(retrieved, q, cfg) ==
    LET hits == IndexSearch(index, q, cfg.top_k)
    IN  \A i \in 1..Len(retrieved) :
            \E j \in 1..Len(hits) :
                /\ hits[j].faiss_id \in DOMAIN id_map
                /\ id_map[hits[j].faiss_id] = retrieved[i].chunk_id
                /\ retrieved[i].score = Round4(hits[j].score)
                /\ hits[j].score >= cfg.score_threshold.value

----------------------------------------------------------------------------
(* Properties of the citations as a set *)

\* C28: in the citations of every answer that ask returns no fragment
\* identifier appears more than once, also when the model's response lists
\* a retrieved identifier several times.
C28_CitationsAreASet ==
    Succeeded("ask") =>
        \A i \in 1..Len(ret.value.citations) : \A j \in 1..Len(ret.value.citations) :
            ret.value.citations[i] = ret.value.citations[j] => i = j

----------------------------------------------------------------------------
(* Properties of rebuilding *)

\* C23: build_index(C) that returns, on an indexer in any prior state,
\* replaces all contents: the index holds exactly the |C| vectors of C,
\* id_map maps the positions 0..|C|-1 to the chunk_ids of C in order,
\* reverse_id_map holds no identifier that is not in C, and
\* next_faiss_id = |C|.
C23_BuildReplacesAll ==
    [][ \A cs \in Batches :
          (build_index(cs, Reliable) /\ ret'.status = "ok")
            => /\ ntotal(index') = Len(cs)
               /\ index'.vecs = [i \in 1..Len(cs) |-> EmbedText(cs[i].text)]
               /\ id_map' = [p \in 0..(Len(cs) - 1) |-> cs[p + 1].chunk_id]
               /\ DOMAIN reverse_id_map' \subseteq { cs[i].chunk_id : i \in 1..Len(cs) }
               /\ next_faiss_id' = Len(cs)
      ]_vars

\* build_index of one fragment has returned on an indexer whose earlier
\* contents, as the snapshot in the directory recorded them, were two
\* fragments with another identifier among them
C23_Witness ==
    /\ Succeeded("build_index")
    /\ call.arg = 1
    /\ saved.valid
    /\ saved.mem[5] = 2
    /\ \E id \in DOMAIN saved.mem[4] : id \notin DOMAIN reverse_id_map

----------------------------------------------------------------------------
(* Properties of calls that raise *)

\* C29: when build_index or add_chunks raises, for any reason, the index,
\* chunks, id_map, reverse_id_map and next_faiss_id are exactly as before
\* the call.
C29_RaisingCallChangesNothing ==
    [][ (call'.op \in {"build_index", "add_chunks"} /\ ret'.status = "raised")
            => mem' = mem
      ]_vars

\* the consequence C29 draws: after a call that raised the three counts
\* still agree
CountsAgreeAfterRaise ==
    (call.op \in {"build_index", "add_chunks"} /\ ret.status = "raised")
        => (index.built => MemCountsAgree)

\* the calls that raise before their first assignment leave the state as
\* it was: an empty list, an indexer without index
EarlyRaiseChangesNothing ==
    [][ /\ call'.op \in {"build_index", "add_chunks"}
        /\ ret'.status = "raised"
        /\ ret'.exc \in {"ValueError", "RuntimeError"}
        => mem' = mem
      ]_vars

----------------------------------------------------------------------------
(* Properties of concurrent calls *)

\* the fragment whose text a vector was computed from
FragmentOfText(t) == CHOOSE f \in Fragments : f.text = t

\* C30: every result that a search or search_with_chunks call returns,
\* also when it ran interleaved with a build_index or add_chunks call,
\* carries the chunk_id (and, for search_with_chunks, the text) of the
\* fragment whose vector was matched.
C30_ResultsMatchUnderInterleaving ==
    running.reader.pc = "returned" =>
        \A k \in 1..Len(running.reader.results) :
            LET result == running.reader.results[k]
            IN  /\ result.chunk_id = FragmentOfText(result.matched).chunk_id
                /\ running.reader.op = "search_with_chunks" => result.text = result.matched

\* a search that ran with no build_index or add_chunks call in progress
\* returns the matched fragments
ResultsMatchWithoutOverlap ==
    (running.reader.pc = "returned" /\ ~running.reader.overlapped) =>
        \A k \in 1..Len(running.reader.results) :
            LET result == running.reader.results[k]
            IN  /\ result.chunk_id = FragmentOfText(result.matched).chunk_id
                /\ running.reader.op = "search_with_chunks" => result.text = result.matched

\* such a search has returned two results
SearchAloneReturnedTwo ==
    /\ running.reader.pc = "returned"
    /\ ~running.reader.overlapped
    /\ running.started > 1
    /\ Len(running.reader.results) = 2

\* a search_with_chunks call has raised IndexError: build_index replaced
\* self.chunks by a shorter list between the length check and the read
InterleavedReaderRaised ==
    running.reader.pc = "raised" /\ running.reader.chunk_id = "IndexError"

----------------------------------------------------------------------------
(* Properties of the threshold filter on both index types *)

\* the fragment ids of the hits of index.search in the order the index
\* ranks them, without the padding
RankedIds(q, k) ==
    LET Named(h) == h.faiss_id # -1 /\ h.faiss_id \in DOMAIN id_map
        named == SelectSeq(IndexSearch(index, q, k), Named)
    IN  [i \in 1..Len(named) |-> id_map[named[i].faiss_id]]

\* the fragment ids of a list of results, in order
IdSeqOf(results) == [i \in 1..Len(results) |-> results[i].chunk_id]

IsPrefix(s, t) == Len(s) <= Len(t) /\ s = SubSeq(t, 1, Len(s))

\* C31: on the configured index type (IndexFlatIP in SpecQuery, IndexFlatL2
\* in SpecL2) the results of search and of search_with_chunks are a prefix
\* of the index's ranked hits: the threshold filter never drops a candidate
\* that ranks before one it keeps.
C31_ResultsArePrefixOfRanking ==
    index.built =>
        \A q \in Queries, k \in TopKs, thr \in Thresholds :
            /\ IsPrefix(IdSeqOf(search_results(index, id_map, q, k, thr)), RankedIds(q, k))
            /\ IsPrefix(IdSeqOf(search_with_chunks_results(index, chunks, id_map, q, k, thr)),
                        RankedIds(q, k))

\* on an inner-product index the results are such a prefix
PrefixOnInnerProduct ==
    index.metric = "IP" => C31_ResultsArePrefixOfRanking

----------------------------------------------------------------------------
(* Properties of the pairing of positions, identifiers and fragments *)

----------------------------------------------------------------------------
(* Properties of a load_index call that raises *)

\* C33: a load_index call that raises leaves index, chunks, id_map,
\* reverse_id_map and next_faiss_id as they were before the call.
C33_FailedLoadChangesNothing ==
    [][ (call'.op = "load_index" /\ ret'.status = "raised") => UNCHANGED mem ]_vars

\* a load_index call that finds no vector file changes nothing
LoadWithoutIndexFileChangesNothing ==
    [][ (call'.op = "load_index" /\ ~disk.index_file.exists) =>
            (ret'.status = "raised" /\ UNCHANGED mem) ]_vars

\* after a load_index call that raised, the vectors and the fragments
\* still agree in number
CountsAgreeAfterFailedLoad ==
    (call.op = "load_index" /\ ret.status = "raised" /\ index.built) =>
        ntotal(index) = Len(chunks)

----------------------------------------------------------------------------
(* Properties of the attempts of call_openai_api_with_validation *)

\* the positions in the log, from the given one on, of the entries of a
\* kind, in order
RECURSIVE PositionsOf(_, _)
PositionsOf(kind, from) ==
    IF from > Len(requests) THEN <<>>
    ELSE IF requests[from].kind = kind THEN <<from>> \o PositionsOf(kind, from + 1)
    ELSE PositionsOf(kind, from + 1)

\* the attempts (from 0) whose response decodes and validates
ValidAttempts ==
    IF KeyMissing(call.arg.api_key) THEN {}
    ELSE { a \in 0..MaxValidationRetries : call.arg.outcomes[a + 1] = "valid" }

FirstValidAttempt == CHOOSE a \in ValidAttempts : \A b \in ValidAttempts : a <= b

\* C34: call_openai_api_with_validation calls the API at most 3 times;
\* when an attempt's response decodes and validates it returns the parsed
\* response of the first such attempt and calls nothing after it; it
\* waits 2 seconds between two consecutive attempts and not after the last.
C34_AttemptsAndWaits ==
    ValidationDone =>
        LET calls == PositionsOf("call_openai_api", 1)
        IN  /\ Len(calls) <= MaxValidationRetries + 1
            /\ Cardinality(EntriesOf("chat")) <= Len(calls)
            /\ ValidAttempts # {} =>
                  /\ ret = Returned(Parsed(ApiResponse("valid", FirstValidAttempt)))
                  /\ Len(calls) = FirstValidAttempt + 1
                  /\ requests[Len(requests)].kind = "chat"
                  /\ EntriesOf("fallback") = {}
            /\ (ret.status = "ok" /\ ret.value # None) => ValidAttempts # {}
            /\ Cardinality(EntriesOf("sleep")) = Len(calls) - 1
            /\ \A i \in EntriesOf("sleep") :
                  /\ requests[i].secs = ValidationWait
                  /\ \E j \in 1..(Len(calls) - 1) : calls[j] < i /\ i < calls[j + 1]
            /\ \A j \in 1..(Len(calls) - 1) :
                  Cardinality({ i \in EntriesOf("sleep") : calls[j] < i /\ i < calls[j + 1] }) = 1

\* the third attempt succeeded after a failed request and an invalid
\* response
C34_Witness ==
    /\ ValidationDone
    /\ call.arg.api_key = SomeKey
    /\ call.arg.outcomes = <<"api_error", "invalid", "valid">>
    /\ ret = Returned(Parsed(ApiResponse("valid", 2)))
    /\ Cardinality(EntriesOf("sleep")) = 2

----------------------------------------------------------------------------
(* Properties of the value returned and of the fallback *)

\* fallback_handling was invoked once, after the third attempt
FallbackOnceAfterThirdAttempt ==
    LET calls == PositionsOf("call_openai_api", 1)
    IN  /\ Cardinality(EntriesOf("fallback")) = 1
        /\ Len(calls) = MaxValidationRetries + 1
        /\ \A i \in EntriesOf("fallback") : calls[Len(calls)] < i

\* C35: call_openai_api_with_validation returns a value other than None
\* only if the value validates against the schema, and whenever it returns
\* None fallback_handling has been invoked exactly once, after the third
\* failed attempt.
C35_ValidOrOneFallback ==
    (ValidationDone /\ ret.status = "ok") =>
        IF ret.value # None
        THEN /\ ValidAttempts # {}
             /\ ret.value = Parsed(ApiResponse("valid", FirstValidAttempt))
        ELSE FallbackOnceAfterThirdAttempt

\* when the first write of fallback.json succeeds, a call that returns
\* None has invoked fallback_handling once, after the third attempt
OneFallbackWhenWritten ==
    (ValidationDone /\ ret = Returned(None) /\ call.arg.writes[1]) =>
        FallbackOnceAfterThirdAttempt

\* no fallback before the third attempt has failed
NoFallbackBeforeThirdAttempt ==
    ValidationDone =>
        \A i \in EntriesOf("fallback") :
            Cardinality({ j \in EntriesOf("call_openai_api") : j < i }) = MaxValidationRetries + 1

----------------------------------------------------------------------------
(* Properties of the response recorded by the fallback *)

\* the attempt's request returned a text
Responded(attempt) ==
    ~KeyMissing(call.arg.api_key) /\ call.arg.outcomes[attempt + 1] # "api_error"

\* what the final attempt (number max_retries) leaves to record: its response, or the
\* placeholder when it produced none
FinalResponse ==
    IF Responded(MaxValidationRetries)
    THEN ApiResponse(call.arg.outcomes[MaxValidationRetries + 1], MaxValidationRetries)
    ELSE ApiFailedText

\* C38: the raw_response that call_openai_api_with_validation passes to
\* fallback_handling is the response of the final attempt, or the
\* placeholder text when the final attempt produced no response; it is
\* never the response of an earlier attempt.
C38_FallbackRecordsFinalAttempt ==
    ValidationDone =>
        \A i \in EntriesOf("fallback") : requests[i].raw_response = FinalResponse

\* when no earlier attempt returned a text, the fallback records the final
\* attempt's response or the placeholder
FinalRecordedWhenEarlierAttemptsFailed ==
    (ValidationDone /\ \A a \in 0..(MaxValidationRetries - 1) : ~Responded(a)) =>
        \A i \in EntriesOf("fallback") : requests[i].raw_response = FinalResponse

----------------------------------------------------------------------------
(* Properties of the lists shared with the caller *)

\* C36: every no-context answer that ask returns has an empty citations
\* list and an empty sources list, whatever callers did with the answers
\* of earlier ask calls.
C36_NoContextAnswerIsEmpty ==
    (call.op = "ask" /\ ret.status = "ok" /\ ~ret.value.has_context) =>
        /\ ret.value.citations = <<>>
        /\ ret.value.sources = <<>>

\* the sources list of a no-context answer is a new list each time
NoContextSourcesEmpty ==
    (call.op = "ask" /\ ret.status = "ok" /\ ~ret.value.has_context) =>
        ret.value.sources = <<>>

\* C37: after build_index(L) and add_chunks(M) the caller's lists L and M
\* have the length and the contents they had when they were passed.
C37_CallerListsUntouched ==
    /\ heap.L = heap.given_L
    /\ heap.M = heap.given_M

\* add_chunks does not change the list it is given
AddedListUntouched == heap.M = heap.given_M

\* add_chunks(M) has returned after build_index(L)
AddedAfterBuild ==
    /\ call.op = "add_chunks"
    /\ ret.status = "ok"
    /\ heap.chunks_is_L
    /\ Len(heap.given_M) >= 1

====
